---- MODULE Spec2Model ----
(***************************************************************************)
(* A model of the TreeBuilder resolution engine (src/tree-builder.js).     *)
(*                                                                         *)
(* JavaScript strings are sequences of tokens (a token is a character, or  *)
(* a literal fragment of a template string), so that concatenation, join,  *)
(* sort and toLowerCase are computed and not assumed.  JavaScript objects  *)
(* are functions from key names to values; a key that is absent is absent  *)
(* from the DOMAIN.  Output nodes live on a heap and are named by the     *)
(* call that created them, which makes object identity (===) observable.   *)
(*                                                                         *)
(* Every invocation of an async function is a task.  The tasks that are on *)
(* the JavaScript call stack are in stack (the running one last); a task   *)
(* that reached an await is suspended until what it awaits has settled and *)
(* the scheduler resumes it, which can happen only when the stack is empty.*)
(***************************************************************************)
EXTENDS Integers, Sequences, FiniteSets, TLC

VARIABLES
    functionDefs,         \* this.functionDefs: the registry, in insertion order
    config,               \* this.config
    asyncResolver,        \* this.asyncResolver ("none" when null)
    topicPublishResolver, \* this.topicPublishResolver ("none" when null)
    resolvedFunctions,    \* this.resolvedFunctions: cache key -> heap id
    inFlightResolutions,  \* this.inFlightResolutions: cache key -> task (promise)
    heap,                 \* the node objects created so far
    rawIds,               \* heap ids of input objects returned as they are
    tasks,                \* the async function invocations of the current build
    stack,                \* the call stack: ids of the tasks running synchronously
    roots,                \* the root structures the caller may pass to build()
    microtasks,           \* the continuations that are ready to run, first first
    waiters,              \* the suspended tasks, in the order of their await
    builds,               \* what each build() call was given and how it settled
    defineCalls           \* the entries given to defineFunction(s) so far, in order

vars == <<functionDefs, config, asyncResolver, topicPublishResolver,
          resolvedFunctions, inFlightResolutions, heap, rawIds, tasks, stack,
          microtasks, waiters, roots, builds, defineCalls>>

\* The number of build() calls made on one builder instance.
MaxBuilds == 2

-----------------------------------------------------------------------------
(* Strings *)

\* A string of one token.
S(t) == <<t>>

\* The value undefined, where a string is expected.
Undefined == <<"<undefined>">>

\* String.prototype.toLowerCase, on one token.
LowerToken(t) ==
    CASE t = "A" -> "a"
      [] t = "B" -> "b"
      [] t = "C" -> "c"
      [] t = "D" -> "d"
      [] t = "F" -> "f"
      [] t = "G" -> "g"
      [] t = "X" -> "x"
      [] t = "M" -> "m"
      [] OTHER -> t

\* The UTF-16 code unit Array.prototype.sort compares by.
CodeUnit(t) ==
    CASE t = "A" -> 65
      [] t = "B" -> 66
      [] t = "C" -> 67
      [] t = "D" -> 68
      [] t = "F" -> 70
      [] t = "G" -> 71
      [] t = "M" -> 77
      [] t = "X" -> 88
      [] t = "a" -> 97
      [] t = "b" -> 98
      [] t = "c" -> 99
      [] t = "d" -> 100
      [] t = "f" -> 102
      [] t = "g" -> 103
      [] t = "m" -> 109
      [] t = "x" -> 120
      [] t = "|" -> 124
      [] OTHER -> 58

\* a < b in the default sort order of strings.
RECURSIVE StrLess(_, _)
StrLess(a, b) ==
    IF b = <<>> THEN FALSE
    ELSE IF a = <<>> THEN TRUE
    ELSE IF a[1] = b[1] THEN StrLess(Tail(a), Tail(b))
    ELSE CodeUnit(a[1]) < CodeUnit(b[1])

\* [...set].sort()
RECURSIVE SortStrings(_)
SortStrings(set) ==
    IF set = {} THEN <<>>
    ELSE LET first == CHOOSE m \in set : \A o \in set \ {m} : StrLess(m, o)
         IN  <<first>> \o SortStrings(set \ {first})

\* Array.prototype.join
RECURSIVE Join(_, _)
Join(strings, sep) ==
    IF strings = <<>> THEN <<>>
    ELSE IF Len(strings) = 1 THEN strings[1]
    ELSE strings[1] \o sep \o Join(Tail(strings), sep)

\* A string is truthy when it is neither undefined nor empty.
Truthy(s) == s # Undefined /\ s # <<>>

-----------------------------------------------------------------------------
(* Objects *)

EmptyObject == [k \in {} |-> 0]

Has(o, k) == k \in DOMAIN o

\* o[k] as a string, undefined when the key is absent.
Get(o, k) == IF k \in DOMAIN o THEN o[k] ELSE Undefined

\* o.type, the empty string when the key is absent.
TypeOf(o) == IF "type" \in DOMAIN o THEN o.type ELSE ""

\* o[k] as a boolean, false when the key is absent.
Flag(o, k) == k \in DOMAIN o /\ o[k] = TRUE

\* o[k] as an array, empty when the key is absent (o[k] || []).
List(o, k) == IF k \in DOMAIN o THEN o[k] ELSE <<>>

\* { ...a, ...b }
Spread(a, b) ==
    [k \in DOMAIN a \cup DOMAIN b |-> IF k \in DOMAIN b THEN b[k] ELSE a[k]]

\* const { k1, k2, ...rest } = o
Rest(o, keys) == [k \in DOMAIN o \ keys |-> o[k]]

-----------------------------------------------------------------------------
(* Names and cache keys *)

_normalizeName(name) == [i \in 1..Len(name) |-> LowerToken(name[i])]

DefKeys(defs) == [i \in 1..Len(defs) |-> defs[i].key]

HasDef(defs, key) == \E i \in 1..Len(defs) : defs[i].key = key

GetDef(defs, key) == defs[CHOOSE i \in 1..Len(defs) : defs[i].key = key].def

\* The name as the reference wrote it.
NameAsWritten(defs, name) == name

_getDisplayName(defs, name) ==
    LET normalizedName == _normalizeName(name)
    IN  IF HasDef(defs, normalizedName)
           /\ Truthy(Get(GetDef(defs, normalizedName), "displayName"))
        THEN GetDef(defs, normalizedName).displayName
        ELSE name

\* A cache key that keeps the name only.
KeyByNameOnly(name, visited) == _normalizeName(name) \o <<":", ":">>

\* A cache key that keeps the name as it was written.
KeyCaseSensitive(name, visited) ==
    name \o <<":", ":">> \o Join(SortStrings(visited), S("|"))

_getFunctionCacheKey(name, visited) ==
    LET normalizedName == _normalizeName(name)
        visitedKey == Join(SortStrings(visited), S("|"))
    IN  normalizedName \o <<":", ":">> \o visitedKey

\* A stopper whose _path ends before the repeated name.
StopperWithoutRepeat(displayName, path) ==
    [name |-> S("loop detected stopping (") \o displayName \o S(")"),
     type |-> "dupe-stopper",
     _cycleAt |-> displayName,
     _path |-> path]

_createCycleStopper(displayName, path) ==
    [name |-> S("loop detected stopping (") \o displayName \o S(")"),
     type |-> "dupe-stopper",
     _cycleAt |-> displayName,
     _path |-> Append(path, displayName)]

\* Every node type is tracked.
TrackEveryType(type) == TRUE

_shouldTrack(type) == type = "function"

-----------------------------------------------------------------------------
(* Metadata lines and node construction *)

_createResolverErrorMetadataLines(resolverName, message) ==
    <<[text |-> resolverName \o S(" errored out")
                 \o (IF message # <<>> THEN S(": ") \o message ELSE <<>>),
       clickable |-> FALSE]>>

\* The lines merged with the reference's own lines first.
MergeOwnLinesFirst(errorLines, ownLines, resolvedLines) ==
    ownLines \o errorLines \o resolvedLines

\* lineGroups.flat().filter(Boolean); the caller tests the result for emptiness.
_mergeMetadataLines(errorLines, ownLines, resolvedLines) ==
    errorLines \o ownLines \o resolvedLines

_applyLogMetadataLine(cfg, node, extraData) ==
    IF TypeOf(node) \notin cfg.logNodeTypes
    THEN node
    ELSE LET logData == Spread([name |-> Get(node, "name"), type |-> node.type],
                               extraData)
             logMetadataLine ==
                 [text |-> S("Logs"), clickable |-> TRUE, data |-> logData]
         IN  Spread(node,
                    [metadata_lines |->
                        <<logMetadataLine>> \o List(node, "metadata_lines")])

\* The diagnostic node with the default severity, whatever the configuration.
UnresolvedNodeAsWarning(cfg, name) ==
    [name |-> S("dependency to ") \o name
              \o S(" could not be resolved so the tree may be incomplete"),
     type |-> "warning",
     _unresolvedRef |-> name]

UnresolvedNode(cfg, name) ==
    [name |-> S("dependency to ") \o name
              \o S(" could not be resolved so the tree may be incomplete"),
     type |-> cfg.unresolvedSeverity,
     _unresolvedRef |-> name]

\* The node of a function definition with the line of its app after its own.
FunctionNodeAppLast(def, name) ==
    LET props == Rest(def, {"children", "app", "queueName", "displayName"})
        outputName == IF Truthy(Get(def, "displayName"))
                      THEN def.displayName ELSE name
        finalProps ==
            IF Truthy(Get(def, "app"))
            THEN Spread(props,
                        [metadata_lines |->
                            List(props, "metadata_lines")
                            \o <<[text |-> def.app, clickable |-> FALSE]>>])
            ELSE props
    IN  Spread([name |-> outputName, type |-> "function"], finalProps)

\* The node of a function definition, before its children are resolved.
FunctionNode(def, name) ==
    LET props == Rest(def, {"children", "app", "queueName", "displayName"})
        outputName == IF Truthy(Get(def, "displayName"))
                      THEN def.displayName ELSE name
        finalProps ==
            IF Truthy(Get(def, "app"))
            THEN Spread(props,
                        [metadata_lines |->
                            <<[text |-> def.app, clickable |-> FALSE]>>
                            \o List(props, "metadata_lines")])
            ELSE props
    IN  Spread([name |-> outputName, type |-> "function"], finalProps)

\* extraData of the Logs line of a function node: app ? { app } : {}
FunctionLogData(def) ==
    IF Truthy(Get(def, "app")) THEN [app |-> def.app] ELSE EmptyObject

\* What a resolver gives for its arguments: a returned object, null, or an
\* exception (thrown, or the rejection of the promise it returned).
Returns(value) == [kind |-> "return", value |-> value, message |-> <<>>]
ReturnsNull == [kind |-> "null", value |-> EmptyObject, message |-> <<>>]
Throws(message) == [kind |-> "throw", value |-> EmptyObject, message |-> message]

ResolverOutcome(resolver, arg1, arg2) ==
    CASE resolver = "queue" -> Returns([queueName |-> S("R.Q")])
      [] resolver = "empty" -> Returns(EmptyObject)
      [] resolver = "null" -> ReturnsNull
      [] resolver = "boom" -> Throws(S("boom"))
      [] resolver = "silent" -> Throws(<<>>)
      [] resolver = "lines" ->
            Returns([metadata_lines |-> <<[text |-> S("depth 3")]>>])
      [] resolver = "boom-b" ->
            IF _normalizeName(arg1) = S("b") THEN Throws(S("boom"))
            ELSE Returns(EmptyObject)
      [] resolver = "boom-upper" ->
            IF arg1 = _normalizeName(arg1) THEN ReturnsNull
            ELSE Throws(S("boom"))
      [] OTHER -> ReturnsNull

\* _resolveExternalProps without its catch clause: the exception of the
\* resolver leaves the function.
ExternalPropsUncaught(resolverName, outcome) ==
    CASE outcome.kind = "return" ->
            [resolvedProps |-> outcome.value, errorMetadataLines |-> <<>>,
             thrown |-> FALSE]
      [] outcome.kind = "null" ->
            [resolvedProps |-> EmptyObject, errorMetadataLines |-> <<>>,
             thrown |-> FALSE]
      [] OTHER ->
            [resolvedProps |-> EmptyObject, errorMetadataLines |-> <<>>,
             thrown |-> TRUE]

\* The { resolvedProps, errorMetadataLines } of _resolveExternalProps, for a
\* resolver whose call ended with outcome.
ExternalPropsCaught(resolverName, outcome) ==
    CASE outcome.kind = "return" ->
            [resolvedProps |-> outcome.value, errorMetadataLines |-> <<>>,
             thrown |-> FALSE]
      [] outcome.kind = "null" ->
            [resolvedProps |-> EmptyObject, errorMetadataLines |-> <<>>,
             thrown |-> FALSE]
      [] OTHER ->
            [resolvedProps |-> EmptyObject,
             errorMetadataLines |->
                 _createResolverErrorMetadataLines(resolverName, outcome.message),
             thrown |-> FALSE]

_resolveExternalProps(resolver, resolverName, arg1, arg2) ==
    IF resolver = "none"
    THEN [resolvedProps |-> EmptyObject, errorMetadataLines |-> <<>>,
          thrown |-> FALSE]
    ELSE ExternalPropsCaught(resolverName, ResolverOutcome(resolver, arg1, arg2))

\* The queueName of the referenced function's definition (funcDef?.queueName).
FuncQueueName(defs, ref) ==
    IF HasDef(defs, _normalizeName(ref))
    THEN Get(GetDef(defs, _normalizeName(ref)), "queueName")
    ELSE Undefined

\* The queue name of the reference itself, and nothing else.
InlineQueueNameOnly(defs, child) == Get(child, "queueName")

\* queueName || funcQueueName
EffectiveQueueName(defs, child) ==
    IF Truthy(Get(child, "queueName")) THEN child.queueName
    ELSE FuncQueueName(defs, child.ref)

\* The queue name with the registry's queueName ahead of the inline one.
RegistryQueueNameFirst(defs, child, resolvedProps) ==
    IF Truthy(Get(resolvedProps, "queueName")) THEN resolvedProps.queueName
    ELSE IF Truthy(FuncQueueName(defs, child.ref))
         THEN FuncQueueName(defs, child.ref)
    ELSE IF Truthy(Get(child, "queueName")) THEN child.queueName
    ELSE _getDisplayName(defs, child.ref) \o S("_queue")

\* resolvedProps.queueName || queueName || funcQueueName || `${displayName}_queue`
AsyncQueueName(defs, child, resolvedProps) ==
    IF Truthy(Get(resolvedProps, "queueName")) THEN resolvedProps.queueName
    ELSE IF Truthy(Get(child, "queueName")) THEN child.queueName
    ELSE IF Truthy(FuncQueueName(defs, child.ref))
         THEN FuncQueueName(defs, child.ref)
    ELSE _getDisplayName(defs, child.ref) \o S("_queue")

\* topicName || 'unknown topic'
EffectiveTopicName(child) ==
    IF Truthy(Get(child, "topicName")) THEN child.topicName
    ELSE S("unknown topic")

\* The name of a topic node with the topic's name ahead of the inline queueName.
TopicNameFirst(child, resolvedProps) ==
    IF Truthy(Get(resolvedProps, "queueName")) THEN resolvedProps.queueName
    ELSE IF Truthy(Get(child, "topicName")) THEN child.topicName \o S("_queue")
    ELSE IF Truthy(Get(child, "queueName")) THEN child.queueName
    ELSE S("unknown topic")

\* resolvedProps.queueName || queueName
\*     || (topicName ? `${topicName}_queue` : 'unknown topic')
TopicQueueName(child, resolvedProps) ==
    IF Truthy(Get(resolvedProps, "queueName")) THEN resolvedProps.queueName
    ELSE IF Truthy(Get(child, "queueName")) THEN child.queueName
    ELSE IF Truthy(Get(child, "topicName")) THEN child.topicName \o S("_queue")
    ELSE S("unknown topic")

\* ...(metadataLines ? { metadata_lines: metadataLines } : {})
MetadataKey(child, ext) ==
    LET metadataLines ==
            _mergeMetadataLines(ext.errorMetadataLines,
                                List(child, "metadata_lines"),
                                List(ext.resolvedProps, "metadata_lines"))
    IN  IF metadataLines # <<>> THEN [metadata_lines |-> metadataLines]
        ELSE EmptyObject

\* The wrapper node with its type set after the properties are copied.
TimerNodeTypeLast(defs, child, ext, pass) ==
    LET existingProps == Rest(child, {"ref", "async", "queueName"})
        base == Spread(Spread(Spread([name |-> AsyncQueueName(defs, child,
                                                              ext.resolvedProps)],
                                     existingProps),
                              ext.resolvedProps),
                       [type |-> "timer"])
        cleaned == IF pass = 1 THEN Spread(base, [queueName |-> Undefined])
                   ELSE base
    IN  Spread(cleaned, MetadataKey(child, ext))

\* The wrapper node of an async reference, without its children.  In pass 1
\* (_resolveChild) the literal also holds queueName: undefined.
TimerNode(defs, child, ext, pass) ==
    LET existingProps == Rest(child, {"ref", "async", "queueName"})
        base == Spread(Spread([name |-> AsyncQueueName(defs, child, ext.resolvedProps),
                               type |-> "timer"],
                              existingProps),
                       ext.resolvedProps)
        cleaned == IF pass = 1 THEN Spread(base, [queueName |-> Undefined])
                   ELSE base
    IN  Spread(cleaned, MetadataKey(child, ext))

\* The node of a topic-publish reference.
TopicNode(child, ext, pass) ==
    LET existingProps ==
            Rest(child, {"ref", "topicName", "topicPublish", "queueName"})
        base == Spread(Spread([name |-> TopicQueueName(child, ext.resolvedProps),
                               type |-> "topic"],
                              existingProps),
                       ext.resolvedProps)
        cleaned == IF pass = 1 THEN Spread(base, [queueName |-> Undefined])
                   ELSE base
    IN  Spread(cleaned, MetadataKey(child, ext))

\* The shape of a reference: child.ref && !child.async && !child.topicPublish, ...
IsSyncRef(child) ==
    Truthy(Get(child, "ref")) /\ ~ Flag(child, "async")
    /\ ~ Flag(child, "topicPublish")

\* A reference with a ref that publishes to a topic wraps its function too.
RefWrapsFunction(child) ==
    Truthy(Get(child, "ref")) /\ (Flag(child, "async") \/ Flag(child, "topicPublish"))

IsAsyncRef(child) == Truthy(Get(child, "ref")) /\ Flag(child, "async")

IsTopicPublish(child) == ~ IsSyncRef(child) /\ ~ IsAsyncRef(child)
                         /\ Flag(child, "topicPublish")

IsInlineQueue(child) ==
    /\ ~ IsSyncRef(child) /\ ~ IsAsyncRef(child) /\ ~ IsTopicPublish(child)
    /\ TypeOf(child) \in {"queue", "timer", "topic"}

IsOtherInline(child) ==
    /\ ~ IsSyncRef(child) /\ ~ IsAsyncRef(child) /\ ~ IsTopicPublish(child)
    /\ ~ IsInlineQueue(child)

-----------------------------------------------------------------------------
(* Maps, tasks and the event loop *)

EmptyMap == [k \in {} |-> 0]

MapSet(map, key, value) ==
    [k \in DOMAIN map \cup {key} |-> IF k = key THEN value ELSE map[k]]

MapDelete(map, key) == [k \in DOMAIN map \ {key} |-> map[k]]

\* Tasks are named by the chain of calls that made them: the k-th call a task
\* makes is the task Append(id, k), and the n-th build() call is <<n>>.  A
\* node is named by the task that created it; null is the empty sequence.
Null == <<>>

\* A new invocation of the async function fn.  node is the object it is given,
\* name the function name it is given.
NewTask(fn, name, visited, path, node) ==
    [fn |-> fn, pc |-> "start", st |-> "run", cont |-> "",
     name |-> name, visited |-> visited, path |-> path, node |-> node,
     newVisited |-> visited, newPath |-> path,
     i |-> 1, calls |-> 0, kids |-> <<>>, ext |-> "none", val |-> Null,
     obj |-> EmptyObject, resolverCalls |-> <<>>,
     props |-> [resolvedProps |-> EmptyObject, errorMetadataLines |-> <<>>,
                thrown |-> FALSE]]

Top == stack[Len(stack)]

\* The name of the task that the running task would call next.
NextId == Append(Top, tasks[Top].calls + 1)

Me == tasks[Top]

Pop == SubSeq(stack, 1, Len(stack) - 1)

At(fn, pc) == stack # <<>> /\ Me.fn = fn /\ Me.pc = pc

Settled(t) == tasks[t].st \in {"done", "rejected"}

\* The promise a task awaits (or the Promise.all of several) is rejected.
KidRejected(task) == \E k \in 1..Len(task.kids) : tasks[task.kids[k]].st = "rejected"

\* The values of the promises a task awaited, in the order of the array.
Results(task) == [k \in 1..Len(task.kids) |-> tasks[task.kids[k]].val]

\* The same, last first.
ResultsReversed(task) ==
    [k \in 1..Len(task.kids) |-> tasks[task.kids[Len(task.kids) + 1 - k]].val]

\* A wrapper that has no child when its resolver failed.
NoChildAfterFailure(ext, value) ==
    IF ext.errorMetadataLines # <<>> THEN <<>> ELSE <<value>>

\* children: [await this._resolveAndCacheFunction(ref, visited, path)]
WrapperChildren(ext, value) == <<value>>

\* The array Promise.all fulfils with.
PromiseAllValues(task) == Results(task)

\* A suspended task goes on as soon as one of the promises it awaits has
\* settled.
ResumeOnFirst(all, t) ==
    /\ all[t].st = "wait"
    /\ all[t].ext # "pending"
    /\ \/ all[t].kids = <<>>
       \/ \E k \in 1..Len(all[t].kids) :
              all[all[t].kids[k]].st \in {"done", "rejected"}

\* A suspended task can go on when its resolver call and every promise it
\* awaits have settled; Promise.all rejects as soon as one of its promises
\* is rejected.
CanResume(all, t) ==
    /\ all[t].st = "wait"
    /\ all[t].ext # "pending"
    /\ \/ \A k \in 1..Len(all[t].kids) :
              all[all[t].kids[k]].st \in {"done", "rejected"}
       \/ \E k \in 1..Len(all[t].kids) : all[all[t].kids[k]].st = "rejected"

\* The suspended tasks that can go on, in the order they were suspended in,
\* are queued as microtasks.
Wake(all) ==
    /\ tasks' = all
    /\ microtasks' = microtasks \o SelectSeq(waiters, LAMBDA w : CanResume(all, w))
    /\ waiters' = SelectSeq(waiters, LAMBDA w : ~ CanResume(all, w))

\* The running task goes on with the next statement.
Goto(me) ==
    /\ tasks' = [tasks EXCEPT ![Top] = me]
    /\ UNCHANGED <<stack, microtasks, waiters>>

\* The running task calls an async function: the callee starts running at once.
Call(me, callee) ==
    /\ tasks' = [t \in DOMAIN tasks \cup {NextId} |->
                    IF t = NextId THEN callee
                    ELSE IF t = Top THEN [me EXCEPT !.calls = @ + 1]
                    ELSE tasks[t]]
    /\ stack' = Append(stack, NextId)
    /\ UNCHANGED <<microtasks, waiters>>

\* The call of an async function whose promise is awaited next.
CallAndAwait(callee, cont) ==
    Call([Me EXCEPT !.pc = "await", !.cont = cont, !.kids = <<NextId>>],
         callee)

\* await: the running task is suspended.  Its continuation is queued at once
\* when what it awaits has already settled.
Suspend(me) ==
    LET all == [tasks EXCEPT ![Top] = [me EXCEPT !.st = "wait"]]
    IN  /\ tasks' = all
        /\ stack' = Pop
        /\ IF CanResume(all, Top)
           THEN microtasks' = Append(microtasks, Top) /\ waiters' = waiters
           ELSE waiters' = Append(waiters, Top) /\ microtasks' = microtasks

\* The running task returns value: its promise is fulfilled.
ReturnValue(value) ==
    /\ Wake([tasks EXCEPT ![Top] = [Me EXCEPT !.st = "done", !.val = value]])
    /\ stack' = Pop

\* The running task returns a node it has just created.
ReturnNew(node) ==
    /\ heap' = MapSet(heap, Top, node)
    /\ ReturnValue(Top)

\* The running task throws: its promise is rejected.
Throw ==
    /\ Wake([tasks EXCEPT ![Top] = [Me EXCEPT !.st = "rejected"]])
    /\ stack' = Pop

\* The tree below a heap node, as a value (null is the empty object).
RECURSIVE Unfold(_, _, _)
Unfold(h, raw, id) ==
    IF id = Null THEN EmptyObject
    ELSE IF id \in raw \/ ~ Has(h[id], "children") THEN h[id]
    ELSE Spread(h[id],
                [children |-> [k \in 1..Len(h[id].children) |->
                                  Unfold(h, raw, h[id].children[k])]])

builderVars ==
    <<functionDefs, config, asyncResolver, topicPublishResolver, roots, defineCalls>>

\* await, after a call
Await ==
    /\ stack # <<>> /\ Me.pc = "await"
    /\ Suspend([Me EXCEPT !.pc = Me.cont])
    /\ UNCHANGED <<builderVars, resolvedFunctions, inFlightResolutions, heap,
                   rawIds, builds>>

\* The event loop runs the first microtask: the continuation of a task.
Resume ==
    /\ stack = <<>>
    /\ microtasks # <<>>
    /\ tasks' = [tasks EXCEPT ![Head(microtasks)] = [@ EXCEPT !.st = "run"]]
    /\ stack' = <<Head(microtasks)>>
    /\ microtasks' = Tail(microtasks)
    /\ UNCHANGED <<builderVars, resolvedFunctions, inFlightResolutions, heap,
                   rawIds, waiters, builds>>

\* The promise returned by a resolver settles, between two microtasks.
ResolverSettles(t) ==
    /\ stack = <<>>
    /\ tasks[t].ext = "pending"
    /\ Wake([tasks EXCEPT ![t] = [@ EXCEPT !.ext = "settled"]])
    /\ UNCHANGED <<builderVars, resolvedFunctions, inFlightResolutions, heap,
                   rawIds, stack, builds>>

\* return await promise
ReturnAwaited ==
    /\ stack # <<>> /\ Me.pc = "return"
    /\ ~ KidRejected(Me)
    /\ ReturnValue(tasks[Me.kids[1]].val)
    /\ UNCHANGED <<builderVars, resolvedFunctions, inFlightResolutions, heap,
                   rawIds, builds>>

\* An awaited promise was rejected and the task has no handler for it.
Propagate ==
    /\ stack # <<>> /\ Me.pc \in {"return", "finish", "wrap", "next", "callBuildNode"}
    /\ KidRejected(Me)
    /\ Throw
    /\ builds' = IF Me.fn = "build"
                 THEN [builds EXCEPT ![Len(builds)].status = "rejected"]
                 ELSE builds
    /\ UNCHANGED <<builderVars, resolvedFunctions, inFlightResolutions, heap,
                   rawIds>>

-----------------------------------------------------------------------------
(* build and _preResolveAllFunctions *)

Quiescent ==
    /\ stack = <<>> /\ microtasks = <<>>
    /\ \A t \in DOMAIN tasks : Settled(t)

\* The caches as build() leaves them when it does not clear them.
KeepCache(map) == map

\* Map.prototype.clear
ClearCache(map) == EmptyMap

\* The caller calls build(rootStructure), which runs up to its first await:
\* the caches are cleared and _preResolveAllFunctions is called.  The nodes
\* of the earlier builds that the builder no longer refers to are dropped
\* from the heap; the caller keeps the trees it was given (builds).
StartBuild(rootStructure) ==
    /\ Quiescent
    /\ Len(builds) < MaxBuilds
    /\ resolvedFunctions' = ClearCache(resolvedFunctions)
    /\ inFlightResolutions' = ClearCache(inFlightResolutions)
    /\ heap' = IF resolvedFunctions' = EmptyMap THEN EmptyMap ELSE heap
    /\ rawIds' = IF resolvedFunctions' = EmptyMap THEN {} ELSE rawIds
    /\ LET build == <<Len(builds) + 1>>
           pre == <<Len(builds) + 1, 1>>
       IN  /\ tasks' = [t \in {build, pre} |->
                           IF t = build
                           THEN [NewTask("build", <<>>, {}, <<>>, rootStructure)
                                    EXCEPT !.pc = "await", !.cont = "callBuildNode",
                                           !.calls = 1, !.kids = <<pre>>]
                           ELSE NewTask("pre", <<>>, {}, <<>>, EmptyObject)]
           /\ stack' = <<build, pre>>
    /\ waiters' = <<>>
    /\ builds' = Append(builds, [root |-> rootStructure, status |-> "running",
                                 tree |-> EmptyObject])
    /\ UNCHANGED <<builderVars, microtasks>>

Build_CallBuildNode ==
    /\ At("build", "callBuildNode")
    /\ ~ KidRejected(Me)
    /\ CallAndAwait(NewTask("bnode", <<>>, {}, <<>>, Me.node), "finish")
    /\ UNCHANGED <<builderVars, resolvedFunctions, inFlightResolutions, heap,
                   rawIds, builds>>

Build_Return ==
    /\ At("build", "finish")
    /\ ~ KidRejected(Me)
    /\ ReturnValue(tasks[Me.kids[1]].val)
    /\ builds' = [builds EXCEPT ![Len(builds)] =
                     [@ EXCEPT !.status = "fulfilled",
                               !.tree = Unfold(heap, rawIds, tasks[Me.kids[1]].val)]]
    /\ UNCHANGED <<builderVars, resolvedFunctions, inFlightResolutions, heap,
                   rawIds>>

\* for (const name of this.functionDefs.keys()): an entry that is not cached
\* under the empty context is resolved, and the loop waits for it.
Pre_Resolve ==
    /\ At("pre", "start")
    /\ Me.i <= Len(functionDefs)
    /\ LET name == functionDefs[Me.i].key
           cacheKey == _getFunctionCacheKey(name, {})
       IN  IF cacheKey \notin DOMAIN resolvedFunctions
           THEN CallAndAwait(NewTask("racf", name, {}, <<>>, EmptyObject), "next")
           ELSE Goto([Me EXCEPT !.i = @ + 1])
    /\ UNCHANGED <<builderVars, resolvedFunctions, inFlightResolutions, heap,
                   rawIds, builds>>

Pre_Next ==
    /\ At("pre", "next")
    /\ ~ KidRejected(Me)
    /\ Goto([Me EXCEPT !.pc = "start", !.i = @ + 1])
    /\ UNCHANGED <<builderVars, resolvedFunctions, inFlightResolutions, heap,
                   rawIds, builds>>

\* _preResolveAllFunctions returns at once, whatever is left of the registry.
Pre_ReturnEarly ==
    /\ At("pre", "start")
    /\ ReturnValue(Null)
    /\ UNCHANGED <<builderVars, resolvedFunctions, inFlightResolutions, heap,
                   rawIds, builds>>

Pre_Return ==
    /\ At("pre", "start")
    /\ Me.i > Len(functionDefs)
    /\ ReturnValue(Null)
    /\ UNCHANGED <<builderVars, resolvedFunctions, inFlightResolutions, heap,
                   rawIds, builds>>

-----------------------------------------------------------------------------
(* _resolveAndCacheFunction *)

\* this.inFlightResolutions.has(cacheKey)
InFlightHas(cacheKey) == cacheKey \in DOMAIN inFlightResolutions

\* visited.has(normalizedName)
CycleDetected(name, visited) == _normalizeName(name) \in visited

\* The stopper is stored under the cache key of the request.
RACF_CycleCached ==
    /\ At("racf", "start")
    /\ CycleDetected(Me.name, Me.visited)
    /\ resolvedFunctions' =
           MapSet(resolvedFunctions, _getFunctionCacheKey(Me.name, Me.visited), Top)
    /\ ReturnNew(_createCycleStopper(_getDisplayName(functionDefs, Me.name), Me.path))
    /\ UNCHANGED <<builderVars, inFlightResolutions, rawIds, builds>>

RACF_Cycle ==
    /\ At("racf", "start")
    /\ CycleDetected(Me.name, Me.visited)
    /\ ReturnNew(_createCycleStopper(_getDisplayName(functionDefs, Me.name), Me.path))
    /\ UNCHANGED <<builderVars, resolvedFunctions, inFlightResolutions, rawIds,
                   builds>>

RACF_Cached ==
    /\ At("racf", "start")
    /\ ~ CycleDetected(Me.name, Me.visited)
    /\ _getFunctionCacheKey(Me.name, Me.visited) \in DOMAIN resolvedFunctions
    /\ ReturnValue(resolvedFunctions[_getFunctionCacheKey(Me.name, Me.visited)])
    /\ UNCHANGED <<builderVars, resolvedFunctions, inFlightResolutions, heap,
                   rawIds, builds>>

\* return await this.inFlightResolutions.get(cacheKey)
RACF_InFlight ==
    /\ At("racf", "start")
    /\ ~ CycleDetected(Me.name, Me.visited)
    /\ LET cacheKey == _getFunctionCacheKey(Me.name, Me.visited)
       IN  /\ cacheKey \notin DOMAIN resolvedFunctions
           /\ InFlightHas(cacheKey)
           /\ Suspend([Me EXCEPT !.pc = "return",
                                 !.kids = <<inFlightResolutions[cacheKey]>>])
    /\ UNCHANGED <<builderVars, resolvedFunctions, inFlightResolutions, heap,
                   rawIds, builds>>

RACF_Unresolved ==
    /\ At("racf", "start")
    /\ ~ CycleDetected(Me.name, Me.visited)
    /\ LET cacheKey == _getFunctionCacheKey(Me.name, Me.visited)
       IN  /\ cacheKey \notin DOMAIN resolvedFunctions
           /\ ~ InFlightHas(cacheKey)
           /\ ~ HasDef(functionDefs, _normalizeName(Me.name))
           /\ resolvedFunctions' = MapSet(resolvedFunctions, cacheKey, Top)
           /\ ReturnNew(UnresolvedNode(config, Me.name))
    /\ UNCHANGED <<builderVars, inFlightResolutions, rawIds, builds>>

\* The async arrow function starts running at once, before the promise it
\* returns is put in inFlightResolutions.
RACF_Begin ==
    /\ At("racf", "start")
    /\ ~ CycleDetected(Me.name, Me.visited)
    /\ LET cacheKey == _getFunctionCacheKey(Me.name, Me.visited)
       IN  /\ cacheKey \notin DOMAIN resolvedFunctions
           /\ ~ InFlightHas(cacheKey)
           /\ HasDef(functionDefs, _normalizeName(Me.name))
           /\ Call([Me EXCEPT !.pc = "setInFlight", !.kids = <<NextId>>],
                   NewTask("iife", Me.name, Me.visited, Me.path,
                           GetDef(functionDefs, _normalizeName(Me.name))))
    /\ UNCHANGED <<builderVars, resolvedFunctions, inFlightResolutions, heap,
                   rawIds, builds>>

\* this.inFlightResolutions.set(cacheKey, resolvePromise); await resolvePromise
RACF_SetInFlight ==
    /\ At("racf", "setInFlight")
    /\ inFlightResolutions' =
           MapSet(inFlightResolutions,
                  _getFunctionCacheKey(Me.name, Me.visited), Me.kids[1])
    /\ Suspend([Me EXCEPT !.pc = "finally"])
    /\ UNCHANGED <<builderVars, resolvedFunctions, heap, rawIds, builds>>

\* The call returns without the finally block.
RACF_NoFinally ==
    /\ At("racf", "finally")
    /\ IF KidRejected(Me) THEN Throw ELSE ReturnValue(tasks[Me.kids[1]].val)
    /\ UNCHANGED <<builderVars, resolvedFunctions, inFlightResolutions, heap,
                   rawIds, builds>>

\* finally { this.inFlightResolutions.delete(cacheKey) }
RACF_Finally ==
    /\ At("racf", "finally")
    /\ inFlightResolutions' =
           MapDelete(inFlightResolutions, _getFunctionCacheKey(Me.name, Me.visited))
    /\ IF KidRejected(Me) THEN Throw ELSE ReturnValue(tasks[Me.kids[1]].val)
    /\ UNCHANGED <<builderVars, resolvedFunctions, heap, rawIds, builds>>

\* The body takes the children out of the definition itself.
IIFE_StartDetaching ==
    /\ At("iife", "start")
    /\ LET def == Me.node
           resolved == FunctionNode(def, Me.name)
           outputName == IF Truthy(Get(def, "displayName"))
                         THEN def.displayName ELSE Me.name
       IN  Goto([Me EXCEPT
                    !.obj = resolved,
                    !.newVisited = Me.visited \cup {_normalizeName(Me.name)},
                    !.newPath = Append(Me.path, outputName),
                    !.pc = IF Len(List(def, "children")) > 0
                           THEN "map" ELSE "finish"])
    /\ functionDefs' =
           [i \in 1..Len(functionDefs) |->
               IF functionDefs[i].key = _normalizeName(Me.name)
               THEN [functionDefs[i] EXCEPT !.def = Rest(@, {"children"})]
               ELSE functionDefs[i]]
    /\ UNCHANGED <<config, asyncResolver, topicPublishResolver, roots, defineCalls,
                   resolvedFunctions, inFlightResolutions, heap, rawIds, builds>>

\* The body of the async arrow function, up to the resolution of the children.
IIFE_Start ==
    /\ At("iife", "start")
    /\ LET def == Me.node
           resolved == FunctionNode(def, Me.name)
           outputName == IF Truthy(Get(def, "displayName"))
                         THEN def.displayName ELSE Me.name
       IN  Goto([Me EXCEPT
                    !.obj = resolved,
                    !.newVisited = Me.visited \cup {_normalizeName(Me.name)},
                    !.newPath = Append(Me.path, outputName),
                    !.pc = IF Len(List(def, "children")) > 0
                           THEN "map" ELSE "finish"])
    /\ UNCHANGED <<builderVars, resolvedFunctions, inFlightResolutions, heap,
                   rawIds, builds>>

\* children.map(child => ...): the calls are made one after the other, each
\* running until its first await.
MapChild ==
    /\ stack # <<>> /\ Me.pc = "map"
    /\ Me.i <= Len(Me.node.children)
    /\ Call([Me EXCEPT !.i = @ + 1, !.kids = Append(@, NextId)],
            NewTask(IF Me.fn = "bnode" THEN "bnode" ELSE "rchild",
                    <<>>, Me.newVisited, Me.newPath, Me.node.children[Me.i]))
    /\ UNCHANGED <<builderVars, resolvedFunctions, inFlightResolutions, heap,
                   rawIds, builds>>

\* await Promise.all([...])
AwaitAll ==
    /\ stack # <<>> /\ Me.pc = "map"
    /\ Me.i > Len(Me.node.children)
    /\ Suspend([Me EXCEPT !.pc = "finish"])
    /\ UNCHANGED <<builderVars, resolvedFunctions, inFlightResolutions, heap,
                   rawIds, builds>>

\* The node is completed, annotated and cached.
IIFE_Finish ==
    /\ At("iife", "finish")
    /\ ~ KidRejected(Me)
    /\ LET resolved == IF Me.kids # <<>>
                       THEN Spread(Me.obj, [children |-> PromiseAllValues(Me)])
                       ELSE Me.obj
           finalResolved ==
               _applyLogMetadataLine(config, resolved, FunctionLogData(Me.node))
       IN  /\ resolvedFunctions' =
                  MapSet(resolvedFunctions,
                         _getFunctionCacheKey(Me.name, Me.visited), Top)
           /\ ReturnNew(finalResolved)
    /\ UNCHANGED <<builderVars, inFlightResolutions, rawIds, builds>>

-----------------------------------------------------------------------------
(* _resolveChild and _buildNode: references *)

PassOf(task) == IF task.fn = "bnode" THEN 2 ELSE 1

\* _resolveChild, sync reference: return this._resolveAndCacheFunction(...)
RC_SyncRef ==
    /\ At("rchild", "start")
    /\ IsSyncRef(Me.node)
    /\ CallAndAwait(NewTask("racf", Me.node.ref, Me.visited, Me.path, EmptyObject),
                    "return")
    /\ UNCHANGED <<builderVars, resolvedFunctions, inFlightResolutions, heap,
                   rawIds, builds>>

\* _buildNode, sync reference: return await this._getFunctionWithCycleCheck(...)
BN_SyncRef ==
    /\ At("bnode", "start")
    /\ IsSyncRef(Me.node)
    /\ CallAndAwait(NewTask("gfcc", Me.node.ref, Me.visited, Me.path, EmptyObject),
                    "return")
    /\ UNCHANGED <<builderVars, resolvedFunctions, inFlightResolutions, heap,
                   rawIds, builds>>

\* await this._resolveExternalProps(resolver, resolverName, args), in both
\* functions and for both kinds of reference: the resolver, when there is
\* one, is called at once and the task waits for what it returns.
CallResolver ==
    /\ stack # <<>> /\ Me.fn \in {"rchild", "bnode"} /\ Me.pc = "start"
    /\ IsAsyncRef(Me.node) \/ IsTopicPublish(Me.node)
    /\ LET resolver == IF IsAsyncRef(Me.node) THEN asyncResolver
                       ELSE topicPublishResolver
           args == IF IsAsyncRef(Me.node)
                   THEN <<Me.node.ref, EffectiveQueueName(functionDefs, Me.node)>>
                   ELSE <<EffectiveTopicName(Me.node), Get(Me.node, "queueName")>>
       IN  IF resolver = "none"
           THEN Suspend([Me EXCEPT !.pc = "props"])
           ELSE \E ext \in {"pending", "settled"} :
                    Suspend([Me EXCEPT !.pc = "props", !.ext = ext,
                                       !.resolverCalls = Append(@, args)])
    /\ UNCHANGED <<builderVars, resolvedFunctions, inFlightResolutions, heap,
                   rawIds, builds>>

\* The { resolvedProps, errorMetadataLines } the task resumes with.
AsyncExternalProps(child) ==
    _resolveExternalProps(asyncResolver, S("asyncResolver"),
                          child.ref, EffectiveQueueName(functionDefs, child))

TopicExternalProps(child) ==
    _resolveExternalProps(topicPublishResolver, S("topicPublishResolver"),
                          EffectiveTopicName(child), Get(child, "queueName"))

\* Async reference, after the resolver: the properties of the literal are
\* evaluated up to children: [await ...].
Async_ResolveFunction ==
    /\ stack # <<>> /\ Me.fn \in {"rchild", "bnode"} /\ Me.pc = "props"
    /\ IsAsyncRef(Me.node)
    /\ LET ext == AsyncExternalProps(Me.node)
       IN  IF ext.thrown
           THEN Throw
           ELSE Call([Me EXCEPT !.pc = "await", !.cont = "wrap", !.props = ext,
                                !.kids = <<NextId>>],
                     NewTask(IF Me.fn = "bnode" THEN "gfcc" ELSE "racf",
                             Me.node.ref, Me.visited, Me.path, EmptyObject))
    /\ UNCHANGED <<builderVars, resolvedFunctions, inFlightResolutions, heap,
                   rawIds, builds>>

Async_Wrap ==
    /\ stack # <<>> /\ Me.fn \in {"rchild", "bnode"} /\ Me.pc = "wrap"
    /\ ~ KidRejected(Me)
    /\ ReturnNew(_applyLogMetadataLine(config,
           Spread(TimerNode(functionDefs, Me.node, Me.props, PassOf(Me)),
                  [children |-> WrapperChildren(Me.props, tasks[Me.kids[1]].val)]),
           EmptyObject))
    /\ UNCHANGED <<builderVars, resolvedFunctions, inFlightResolutions, rawIds,
                   builds>>

\* Topic-publish reference, after the resolver.
Topic_Node ==
    /\ stack # <<>> /\ Me.fn \in {"rchild", "bnode"} /\ Me.pc = "props"
    /\ IsTopicPublish(Me.node)
    /\ LET ext == TopicExternalProps(Me.node)
       IN  IF ext.thrown
           THEN Throw /\ heap' = heap
           ELSE ReturnNew(_applyLogMetadataLine(config,
                              TopicNode(Me.node, ext, PassOf(Me)), EmptyObject))
    /\ UNCHANGED <<builderVars, resolvedFunctions, inFlightResolutions, rawIds,
                   builds>>

-----------------------------------------------------------------------------
(* _resolveChild: inline nodes *)

\* Inline queue with children: child.children.map(...)
RC_InlineQueue ==
    /\ At("rchild", "start")
    /\ IsInlineQueue(Me.node)
    /\ Has(Me.node, "children")
    /\ Goto([Me EXCEPT !.pc = "map"])
    /\ UNCHANGED <<builderVars, resolvedFunctions, inFlightResolutions, heap,
                   rawIds, builds>>

\* Inline queue without children: child.children?.map(...) is undefined and
\* Promise.all(undefined) is a rejected promise, which the await throws.
RC_InlineQueueNoChildren ==
    /\ At("rchild", "start")
    /\ IsInlineQueue(Me.node)
    /\ ~ Has(Me.node, "children")
    /\ Suspend([Me EXCEPT !.pc = "typeError"])
    /\ UNCHANGED <<builderVars, resolvedFunctions, inFlightResolutions, heap,
                   rawIds, builds>>

RC_TypeError ==
    /\ At("rchild", "typeError")
    /\ Throw
    /\ UNCHANGED <<builderVars, resolvedFunctions, inFlightResolutions, heap,
                   rawIds, builds>>

RC_InlineFinish ==
    /\ At("rchild", "finish")
    /\ ~ KidRejected(Me)
    /\ ReturnNew(_applyLogMetadataLine(config,
           Spread(Me.node, [children |-> PromiseAllValues(Me)]), EmptyObject))
    /\ UNCHANGED <<builderVars, resolvedFunctions, inFlightResolutions, rawIds,
                   builds>>

\* Other inline node: return child
RC_Other ==
    /\ At("rchild", "start")
    /\ IsOtherInline(Me.node)
    /\ rawIds' = rawIds \cup {Top}
    /\ ReturnNew(Me.node)
    /\ UNCHANGED <<builderVars, resolvedFunctions, inFlightResolutions, builds>>

-----------------------------------------------------------------------------
(* _buildNode: structural nodes *)

IsStructural(node) ==
    ~ IsSyncRef(node) /\ ~ IsAsyncRef(node) /\ ~ IsTopicPublish(node)

\* this._shouldTrack(node.type) && node.name
\* No inline node is tracked.
TrackedNever(node) == FALSE

Tracked(node) ==
    /\ _shouldTrack(TypeOf(node))
    /\ Truthy(Get(node, "name"))

\* if (!node.children) return this._applyLogMetadataLine(result)
BN_Leaf ==
    /\ At("bnode", "start")
    /\ IsStructural(Me.node)
    /\ ~ Has(Me.node, "children")
    /\ ReturnNew(_applyLogMetadataLine(config, Me.node, EmptyObject))
    /\ UNCHANGED <<builderVars, resolvedFunctions, inFlightResolutions, rawIds,
                   builds>>

BN_Cycle ==
    /\ At("bnode", "start")
    /\ IsStructural(Me.node)
    /\ Has(Me.node, "children")
    /\ Tracked(Me.node)
    /\ _normalizeName(Me.node.name) \in Me.visited
    /\ ReturnNew(_createCycleStopper(Me.node.name, Me.path))
    /\ UNCHANGED <<builderVars, resolvedFunctions, inFlightResolutions, rawIds,
                   builds>>

BN_Enter ==
    /\ At("bnode", "start")
    /\ IsStructural(Me.node)
    /\ Has(Me.node, "children")
    /\ ~ (Tracked(Me.node) /\ _normalizeName(Me.node.name) \in Me.visited)
    /\ Goto([Me EXCEPT
                !.pc = "map",
                !.newVisited = IF Tracked(Me.node)
                               THEN Me.visited \cup {_normalizeName(Me.node.name)}
                               ELSE Me.visited,
                !.newPath = IF Tracked(Me.node)
                            THEN Append(Me.path, Me.node.name)
                            ELSE Me.path])
    /\ UNCHANGED <<builderVars, resolvedFunctions, inFlightResolutions, heap,
                   rawIds, builds>>

\* The elements of seq that satisfy Keep, in order.
RECURSIVE SelectIds(_, _)
SelectIds(seq, keep) ==
    IF seq = <<>> THEN <<>>
    ELSE IF seq[1] \in keep THEN <<seq[1]>> \o SelectIds(Tail(seq), keep)
    ELSE SelectIds(Tail(seq), keep)

\* The resolved children without the method filter: the nulls are dropped.
KeepsEmptyMethods(cfg, type, resolvedChildren) ==
    SelectIds(resolvedChildren, DOMAIN heap)

\* The resolved children that the filters of a node of this type keep.
KeptChildren(cfg, type, resolvedChildren) ==
    LET notNull == DOMAIN heap
        nonEmptyMethod ==
            {id \in DOMAIN heap :
                TypeOf(heap[id]) = "ui-service-method"
                    => Len(List(heap[id], "children")) > 0}
        methodsFiltered == cfg.filterEmptyUiServiceMethods /\ type = "ui-services"
    IN  SelectIds(resolvedChildren,
                  IF methodsFiltered THEN notNull \cap nonEmptyMethod ELSE notNull)

BN_Finish ==
    /\ At("bnode", "finish")
    /\ ~ KidRejected(Me)
    /\ LET type == TypeOf(Me.node)
           children == KeptChildren(config, type, PromiseAllValues(Me))
       IN  IF config.filterEmptyUiServices /\ type = "ui-services" /\ children = <<>>
           THEN ReturnValue(Null) /\ heap' = heap
           ELSE ReturnNew(_applyLogMetadataLine(config,
                              Spread(Me.node, [children |-> children]), EmptyObject))
    /\ UNCHANGED <<builderVars, resolvedFunctions, inFlightResolutions, rawIds,
                   builds>>

-----------------------------------------------------------------------------
(* _getFunctionWithCycleCheck *)

GF_Cycle ==
    /\ At("gfcc", "start")
    /\ CycleDetected(Me.name, Me.visited)
    /\ ReturnNew(_createCycleStopper(_getDisplayName(functionDefs, Me.name), Me.path))
    /\ UNCHANGED <<builderVars, resolvedFunctions, inFlightResolutions, rawIds,
                   builds>>

\* The Logs rule is applied again to the node found in the cache.
GF_CachedAnnotated ==
    /\ At("gfcc", "start")
    /\ ~ CycleDetected(Me.name, Me.visited)
    /\ _getFunctionCacheKey(Me.name, Me.visited) \in DOMAIN resolvedFunctions
    /\ ReturnNew(_applyLogMetadataLine(config,
           heap[resolvedFunctions[_getFunctionCacheKey(Me.name, Me.visited)]],
           EmptyObject))
    /\ UNCHANGED <<builderVars, resolvedFunctions, inFlightResolutions, rawIds,
                   builds>>

GF_Cached ==
    /\ At("gfcc", "start")
    /\ ~ CycleDetected(Me.name, Me.visited)
    /\ _getFunctionCacheKey(Me.name, Me.visited) \in DOMAIN resolvedFunctions
    /\ ReturnValue(resolvedFunctions[_getFunctionCacheKey(Me.name, Me.visited)])
    /\ UNCHANGED <<builderVars, resolvedFunctions, inFlightResolutions, heap,
                   rawIds, builds>>

GF_Resolve ==
    /\ At("gfcc", "start")
    /\ ~ CycleDetected(Me.name, Me.visited)
    /\ _getFunctionCacheKey(Me.name, Me.visited) \notin DOMAIN resolvedFunctions
    /\ CallAndAwait(NewTask("racf", Me.name, Me.visited, Me.path, EmptyObject),
                    "return")
    /\ UNCHANGED <<builderVars, resolvedFunctions, inFlightResolutions, heap,
                   rawIds, builds>>

-----------------------------------------------------------------------------
(* The registry *)

\* A registry in which the first definition of a name stays.
RegistryKeepFirst(defs, key, def) ==
    IF HasDef(defs, key) THEN defs
    ELSE Append(defs, [key |-> key, def |-> def])

\* Map.prototype.set on the registry: a key that is present keeps its place.
RegistrySet(defs, key, def) ==
    IF HasDef(defs, key)
    THEN [i \in 1..Len(defs) |->
             IF defs[i].key = key THEN [key |-> key, def |-> def] ELSE defs[i]]
    ELSE Append(defs, [key |-> key, def |-> def])

\* One entry of defineFunctions(defs).
DefineEntry(defs, name, def) ==
    LET props == Rest(def, {"children"})
        propsWithDisplayName ==
            IF Truthy(Get(props, "displayName")) THEN props
            ELSE Spread([displayName |-> name], props)
    IN  RegistrySet(defs, _normalizeName(name),
                    Spread([children |-> List(def, "children")],
                           propsWithDisplayName))

\* defineFunctions(defs), the entries of defs in the order Object.entries
\* gives them.
RECURSIVE defineFunctions(_, _)
defineFunctions(defs, entries) ==
    IF entries = <<>> THEN defs
    ELSE defineFunctions(DefineEntry(defs, entries[1].name, entries[1].def),
                         Tail(entries))

\* defineFunction(name, children = [], extraProps = {})
defineFunction(defs, name, children, extraProps) ==
    LET propsWithDisplayName ==
            IF Truthy(Get(extraProps, "displayName")) THEN extraProps
            ELSE Spread([displayName |-> name], extraProps)
    IN  RegistrySet(defs, _normalizeName(name),
                    Spread([children |-> children], propsWithDisplayName))

\* TreeBuilder.ref, TreeBuilder.asyncRef, TreeBuilder.topicPublishRef
ref(name) == [ref |-> name]

asyncRef(name, queueName, props) ==
    Spread([ref |-> name, async |-> TRUE, queueName |-> queueName], props)

topicPublishRef(topicName, queueName, props) ==
    Spread([ref |-> Undefined, topicName |-> topicName, topicPublish |-> TRUE,
            async |-> FALSE, queueName |-> queueName], props)

-----------------------------------------------------------------------------
(* The registries, root structures and configurations that are built *)

DefaultConfig ==
    [unresolvedSeverity |-> "warning", filterEmptyUiServiceMethods |-> FALSE,
     filterEmptyUiServices |-> FALSE, logNodeTypes |-> {}]

Entry(name, children) == [name |-> name, def |-> [children |-> children]]

EntryWith(name, children, props) ==
    [name |-> name, def |-> Spread([children |-> children], props)]

App(children) == [name |-> S("test-app"), type |-> "app", children |-> children]

Scenario(defs, rootSet) ==
    [defs |-> defs, roots |-> rootSet, configs |-> {DefaultConfig},
     resolvers |-> {<<"none", "none">>}]

\* A function that refers to itself, twice.
SelfRef ==
    Scenario(<<Entry(S("A"), <<ref(S("A")), ref(S("a"))>>)>>,
             {App(<<ref(S("A"))>>)})

\* The cycle A -> B -> C -> D -> A.
Chain ==
    Scenario(<<Entry(S("A"), <<ref(S("B"))>>), Entry(S("B"), <<ref(S("C"))>>),
               Entry(S("C"), <<ref(S("D"))>>), Entry(S("D"), <<ref(S("A"))>>)>>,
             {App(<<ref(S("A"))>>), App(<<ref(S("C")), ref(S("B"))>>)})

\* A cycle B <-> C reached from A and from D.
TwoEntries ==
    Scenario(<<Entry(S("A"), <<ref(S("B"))>>), Entry(S("B"), <<ref(S("C"))>>),
               Entry(S("C"), <<ref(S("B"))>>), Entry(S("D"), <<ref(S("C"))>>)>>,
             {App(<<ref(S("D"))>>)})

\* X is reached under A and under B and refers to both.
Shared ==
    Scenario(<<Entry(S("A"), <<ref(S("X"))>>), Entry(S("B"), <<ref(S("X"))>>),
               Entry(S("X"), <<ref(S("A")), ref(S("B"))>>)>>,
             {App(<<ref(S("A")), ref(S("B"))>>)})

\* X is reached through A then B and through B then A.
TwoOrders ==
    Scenario(<<Entry(S("A"), <<ref(S("B")), ref(S("X"))>>),
               Entry(S("B"), <<ref(S("A")), ref(S("X"))>>),
               Entry(S("X"), <<ref(S("A"))>>)>>,
             {App(<<ref(S("B"))>>)})

\* The same, below P, which refers to A and to B through the async resolver:
\* the answers of the resolver decide which of the two is resolved first.
TwoOrdersAsync ==
    [Scenario(<<Entry(S("P"), <<asyncRef(S("A"), Undefined, EmptyObject),
                                asyncRef(S("B"), Undefined, EmptyObject)>>),
                Entry(S("A"), <<ref(S("B")), ref(S("X"))>>),
                Entry(S("B"), <<ref(S("A")), ref(S("X"))>>),
                Entry(S("X"), <<ref(S("A"))>>)>>,
              {App(<<ref(S("P"))>>)})
        EXCEPT !.resolvers = {<<"empty", "none">>}]

\* A function whose name holds the separator of the cache key.
PipeName ==
    Scenario(<<Entry(<<"a", "|", "b">>, <<ref(S("x"))>>),
               Entry(S("a"), <<ref(S("b"))>>),
               Entry(S("b"), <<ref(S("x"))>>),
               Entry(S("x"), <<ref(S("a")), ref(<<"a", "|", "b">>)>>)>>,
             {App(<<ref(S("a"))>>)})

\* The diamond A -> [B, C], B -> D, C -> D, D -> A.
Diamond ==
    Scenario(<<Entry(S("A"), <<ref(S("B")), ref(S("C"))>>),
               Entry(S("B"), <<ref(S("D"))>>), Entry(S("C"), <<ref(S("D"))>>),
               Entry(S("D"), <<ref(S("A"))>>)>>,
             {App(<<ref(S("A"))>>)})

\* The same diamond, entered through async references.
DiamondAsync ==
    [Scenario(<<Entry(S("A"), <<asyncRef(S("B"), Undefined, EmptyObject),
                                asyncRef(S("C"), Undefined, EmptyObject)>>),
                Entry(S("B"), <<ref(S("D"))>>), Entry(S("C"), <<ref(S("D"))>>),
                Entry(S("D"), <<ref(S("A"))>>)>>,
              {App(<<ref(S("A"))>>)})
        EXCEPT !.resolvers = {<<"empty", "none">>}]

\* A sync and an async reference to B from the same parent.
Race ==
    [Scenario(<<Entry(S("A"), <<ref(S("B")), asyncRef(S("b"), Undefined, EmptyObject)>>),
                Entry(S("B"), <<asyncRef(S("C"), Undefined, EmptyObject)>>),
                Entry(S("C"), <<>>)>>,
              {App(<<ref(S("A"))>>),
               App(<<asyncRef(S("B"), Undefined, EmptyObject), ref(S("B"))>>)})
        EXCEPT !.resolvers = {<<"none", "none">>, <<"empty", "none">>},
               !.configs = {[DefaultConfig EXCEPT
                                !.logNodeTypes = {"function", "timer"}]}]

\* X and Y refer to each other through async references.
Mutual ==
    [Scenario(<<Entry(S("A"), <<asyncRef(S("X"), Undefined, EmptyObject),
                                asyncRef(S("Y"), Undefined, EmptyObject)>>),
                Entry(S("X"), <<asyncRef(S("Y"), Undefined, EmptyObject)>>),
                Entry(S("Y"), <<asyncRef(S("X"), Undefined, EmptyObject)>>)>>,
              {App(<<ref(S("A"))>>)})
        EXCEPT !.resolvers = {<<"empty", "none">>}]

\* References to M, which is not defined.
Missing ==
    [Scenario(<<Entry(S("A"), <<ref(S("M")), ref(S("B")),
                                asyncRef(S("M"), Undefined, EmptyObject)>>),
                Entry(S("B"), <<>>)>>,
              {App(<<ref(S("A")), ref(S("m")), ref(S("M"))>>),
               App(<<asyncRef(S("M"), S("Q"), EmptyObject), ref(S("B"))>>)})
        EXCEPT !.configs = {DefaultConfig,
                            [DefaultConfig EXCEPT !.unresolvedSeverity = "error"],
                            [DefaultConfig EXCEPT !.logNodeTypes = {"warning", "function"}]}]

\* Async and topic-publish references, with every kind of resolver.
Resolvers ==
    [Scenario(<<EntryWith(S("F"),
                          <<asyncRef(S("G"), Undefined, EmptyObject),
                            topicPublishRef(S("T"), Undefined, EmptyObject)>>,
                          [queueName |-> S("FUNC.Q"), app |-> S("app1"),
                           metadata_lines |-> <<[text |-> S("own")]>>]),
                Entry(S("G"), <<>>)>>,
              {App(<<asyncRef(S("f"), S("INLINE.Q"),
                              [metadata_lines |-> <<[text |-> S("ref line")]>>,
                               priority |-> S("high")]),
                     topicPublishRef(S("T"), S("TOPIC.Q"),
                                     [metadata_lines |-> <<[text |-> S("ref line")]>>])>>),
               App(<<asyncRef(S("F"), Undefined, EmptyObject),
                     topicPublishRef(Undefined, Undefined, EmptyObject)>>)})
        EXCEPT !.resolvers = {<<"none", "none">>, <<"queue", "queue">>,
                              <<"null", "boom">>, <<"boom", "silent">>,
                              <<"silent", "queue">>, <<"lines", "none">>,
                              <<"empty", "boom">>},
               !.configs = {DefaultConfig,
                            [DefaultConfig EXCEPT
                                !.logNodeTypes = {"function", "timer", "topic"}]}]

\* Async references with and without a queueName of their own, to functions
\* with and without a queueName in the registry, in the root tree and in a
\* definition; one reference carries a name among its extra properties.
QueueNames ==
    [Scenario(<<Entry(S("P"), <<asyncRef(S("f"), Undefined, EmptyObject),
                                asyncRef(S("F"), S("INLINE.Q"), EmptyObject),
                                asyncRef(S("G"), Undefined, EmptyObject)>>),
                EntryWith(S("F"), <<>>, [queueName |-> S("FUNC.Q")]),
                Entry(S("G"), <<>>)>>,
              {App(<<asyncRef(S("f"), S("INLINE.Q"), EmptyObject),
                     asyncRef(S("g"), S("Q"), [name |-> S("mine")]),
                     asyncRef(S("G"), Undefined, [type |-> "queue"]),
                     ref(S("P"))>>)})
        EXCEPT !.resolvers = {<<"none", "none">>, <<"queue", "none">>}]

\* Topic-publish references with and without a topic name and a queueName, in
\* the root tree and in a definition; one reference carries a name among its
\* extra properties.
TopicNames ==
    [Scenario(<<Entry(S("P"), <<topicPublishRef(S("T"), S("IN.Q"), [stage |-> S("publish")]),
                                topicPublishRef(Undefined, Undefined, EmptyObject)>>)>>,
              {App(<<[topicName |-> S("myTopic"), topicPublish |-> TRUE,
                      queueName |-> S("TOPIC.ORIGINAL.QUEUE"), stage |-> S("publish")],
                     topicPublishRef(S("T"), Undefined, [name |-> S("mine"), ref |-> S("P")]),
                     ref(S("P"))>>)})
        EXCEPT !.resolvers = {<<"none", "null">>, <<"none", "queue">>}]

\* A resolver that fails for one function only.
PartialFailure ==
    [Scenario(<<Entry(S("A"), <<asyncRef(S("B"), Undefined, EmptyObject),
                                asyncRef(S("C"), S("C.Q"), EmptyObject)>>),
                Entry(S("B"), <<ref(S("M"))>>),
                Entry(S("C"), <<ref(S("A"))>>)>>,
              {App(<<ref(S("A")), asyncRef(S("B"), Undefined, EmptyObject)>>)})
        EXCEPT !.resolvers = {<<"boom-b", "none">>}]

\* Inline queue nodes in a function definition, with and without children,
\* and an inline node of another type.
InlineQueues ==
    Scenario(<<Entry(S("A"), <<[name |-> S("q1"), type |-> "queue",
                                children |-> <<ref(S("B")), ref(S("A"))>>],
                               [name |-> S("note"), type |-> "ui-service-method",
                                children |-> <<ref(S("B"))>>]>>),
               Entry(S("B"), <<>>)>>,
             {App(<<ref(S("A"))>>)})

InlineQueueNoChildren ==
    Scenario(<<Entry(S("B"), <<>>),
               Entry(S("A"), <<ref(S("B")), [name |-> S("q2"), type |-> "timer"]>>)>>,
             {App(<<ref(S("B"))>>)})

\* Two async references to a function whose resolution fails: the second
\* reference asks for the function after the first resolution has rejected
\* and left inFlightResolutions.
RetryAfterFailure ==
    [Scenario(<<Entry(S("P"), <<asyncRef(S("Y"), Undefined, EmptyObject),
                                asyncRef(S("Y"), Undefined, EmptyObject)>>),
                Entry(S("Y"), <<[name |-> S("q2"), type |-> "timer"]>>)>>,
              {App(<<ref(S("P"))>>)})
        EXCEPT !.resolvers = {<<"empty", "none">>}]

\* The structural nodes of the root tree, with the filters on and off.
Structure ==
    [Scenario(<<Entry(S("A"), <<ref(S("B"))>>), Entry(S("B"), <<ref(S("A"))>>)>>,
              {App(<<[name |-> S("Group"), type |-> "ui-services",
                      children |-> <<[name |-> S("empty"), type |-> "ui-service-method"],
                                     [name |-> S("none"), type |-> "ui-service-method",
                                      children |-> <<>>]>>],
                     [name |-> S("B"), type |-> "ui-services",
                      children |-> <<[name |-> S("empty"), type |-> "ui-service-method",
                                      children |-> <<>>],
                                     [name |-> S("a"), type |-> "ui-service-method",
                                      children |-> <<ref(S("A"))>>],
                                     ref(S("B"))>>],
                     [name |-> S("Group3"), type |-> "ui-services"],
                     [name |-> S("Group4"), type |-> "ui-services",
                      children |-> <<>>],
                     [name |-> S("A"), type |-> "timer",
                      children |-> <<ref(S("A")),
                                     [name |-> S("b"), type |-> "app",
                                      children |-> <<ref(S("B"))>>]>>]>>),
               App(<<[name |-> S("A"), type |-> "function",
                      children |-> <<[name |-> S("B"), type |-> "ui-service-method",
                                      children |-> <<ref(S("B")), ref(S("a")),
                                                     asyncRef(S("A"), Undefined,
                                                              EmptyObject)>>],
                                     [name |-> S("a"), type |-> "function",
                                      children |-> <<ref(S("B"))>>]>>]>>)})
        EXCEPT !.configs =
            {DefaultConfig,
             [DefaultConfig EXCEPT !.filterEmptyUiServiceMethods = TRUE],
             [DefaultConfig EXCEPT !.filterEmptyUiServices = TRUE],
             [DefaultConfig EXCEPT !.filterEmptyUiServiceMethods = TRUE,
                                   !.filterEmptyUiServices = TRUE,
                                   !.logNodeTypes = {"app", "ui-service-method"}]}]

\* A resolver that fails for the reference written B and returns nothing for
\* the reference written b.
FailureIsolated ==
    [Scenario(<<Entry(S("A"), <<asyncRef(S("B"), Undefined,
                                         [metadata_lines |-> <<[text |-> S("own")]>>]),
                                asyncRef(S("b"), Undefined,
                                         [metadata_lines |-> <<[text |-> S("own")]>>])>>),
                Entry(S("B"), <<ref(S("C")), ref(S("A"))>>),
                Entry(S("C"), <<>>)>>,
              {App(<<asyncRef(S("B"), S("Q"), EmptyObject), ref(S("A"))>>),
               App(<<asyncRef(S("b"), S("Q"), EmptyObject), ref(S("a"))>>)})
        EXCEPT !.resolvers = {<<"boom-upper", "none">>},
               !.configs = {[DefaultConfig EXCEPT !.logNodeTypes = {"timer"}]}]

\* References written in another case than the definitions, in a cycle.
Casing ==
    [Scenario(<<Entry(S("A"), <<ref(S("b")), asyncRef(S("B"), Undefined, EmptyObject)>>),
                Entry(S("b"), <<ref(S("a"))>>)>>,
              {App(<<ref(S("a")), asyncRef(S("a"), Undefined, EmptyObject)>>),
               App(<<ref(S("B")), ref(S("b"))>>)})
        EXCEPT !.resolvers = {<<"none", "none">>, <<"empty", "none">>}]

\* The same, with a definition whose displayName is the empty string.
CasingNoDisplayName ==
    Scenario(<<EntryWith(S("A"), <<ref(S("b")), asyncRef(S("B"), Undefined, EmptyObject)>>,
                         [displayName |-> <<>>]),
               EntryWith(S("b"), <<ref(S("a"))>>, [displayName |-> <<>>])>>,
             {App(<<ref(S("a")), asyncRef(S("a"), Undefined, EmptyObject)>>)})

Scenarios ==
    {RetryAfterFailure, TwoOrdersAsync, QueueNames, TopicNames, Casing, CasingNoDisplayName, FailureIsolated, SelfRef, Chain, TwoEntries, Shared, TwoOrders, PipeName, Diamond,
     DiamondAsync, Race, Mutual, Missing, Resolvers, PartialFailure,
     InlineQueues, InlineQueueNoChildren, Structure}

-----------------------------------------------------------------------------
(* The specification *)

Init ==
    \E sc \in Scenarios :
        /\ functionDefs = defineFunctions(<<>>, sc.defs)
        /\ defineCalls = sc.defs
        /\ config \in sc.configs
        /\ \E r \in sc.resolvers :
              asyncResolver = r[1] /\ topicPublishResolver = r[2]
        /\ roots = sc.roots
        /\ resolvedFunctions = EmptyMap
        /\ inFlightResolutions = EmptyMap
        /\ heap = EmptyMap
        /\ rawIds = {}
        /\ tasks = EmptyMap
        /\ stack = <<>>
        /\ microtasks = <<>>
        /\ waiters = <<>>
        /\ builds = <<>>

\* The steps of the engine.
Step ==
    \/ Await
    \/ Resume
    \/ ReturnAwaited
    \/ Propagate
    \/ Build_CallBuildNode
    \/ Build_Return
    \/ Pre_Resolve
    \/ Pre_Next
    \/ Pre_Return
    \/ RACF_Cycle
    \/ RACF_Cached
    \/ RACF_InFlight
    \/ RACF_Unresolved
    \/ RACF_Begin
    \/ RACF_SetInFlight
    \/ RACF_Finally
    \/ IIFE_Start
    \/ MapChild
    \/ AwaitAll
    \/ IIFE_Finish
    \/ RC_SyncRef
    \/ BN_SyncRef
    \/ CallResolver
    \/ Async_ResolveFunction
    \/ Async_Wrap
    \/ Topic_Node
    \/ RC_InlineQueue
    \/ RC_InlineQueueNoChildren
    \/ RC_TypeError
    \/ RC_InlineFinish
    \/ RC_Other
    \/ BN_Leaf
    \/ BN_Cycle
    \/ BN_Enter
    \/ BN_Finish
    \/ GF_Cycle
    \/ GF_Cached
    \/ GF_Resolve

\* The steps of the environment: the caller and the resolvers.
Environment ==
    \/ \E rootStructure \in roots : StartBuild(rootStructure)
    \/ \E t \in DOMAIN tasks : ResolverSettles(t)

Next == Step \/ Environment

Spec == Init /\ [][Next]_vars

-----------------------------------------------------------------------------
(* The output trees *)

\* Every node of the tree below node, first the node and then its subtrees in
\* order, each with the names of the function nodes above it (outermost
\* first).
RECURSIVE Occurrences(_, _), OccurrencesOfAll(_, _)
Occurrences(node, above) ==
    LET below == IF TypeOf(node) = "function" THEN Append(above, node.name)
                 ELSE above
    IN  <<[node |-> node, above |-> above]>>
            \o OccurrencesOfAll(List(node, "children"), below)

OccurrencesOfAll(nodes, above) ==
    IF nodes = <<>> THEN <<>>
    ELSE Occurrences(nodes[1], above) \o OccurrencesOfAll(Tail(nodes), above)

\* The build() calls that have fulfilled.
Fulfilled == {n \in 1..Len(builds) : builds[n].status = "fulfilled"}

\* The nodes of the tree that the n-th build() returned.
Output(n) == Occurrences(builds[n].tree, <<>>)

\* The function node o has a function node of the same lower-cased name above.
RepeatsAncestor(o) ==
    /\ TypeOf(o.node) = "function"
    /\ \E j \in 1..Len(o.above) :
           _normalizeName(o.above[j]) = _normalizeName(o.node.name)

IsStopper(o) == TypeOf(o.node) = "dupe-stopper"

\* The stopper o names a function node above it.
NamesAncestor(o) ==
    \E j \in 1..Len(o.above) :
        _normalizeName(o.above[j]) = _normalizeName(o.node._cycleAt)

\* C1: in a tree that build() returned, no path from the root holds two
\* function nodes with the same lower-cased name.
C1_NoFunctionTwiceOnPath ==
    \A n \in Fulfilled :
        \A i \in 1..Len(Output(n)) : ~ RepeatsAncestor(Output(n)[i])

\* C2: every dupe-stopper of a returned tree names, in _cycleAt, a function
\* node that is above it on its path; a reference reached where its function
\* is not above is never a stopper.
C2_StopperNamesAncestor ==
    \A n \in Fulfilled :
        \A i \in 1..Len(Output(n)) :
            IsStopper(Output(n)[i]) => NamesAncestor(Output(n)[i])

\* C3: the _path of every dupe-stopper of a returned tree is the names of the
\* function nodes above it, outermost first, followed by its _cycleAt.
C3_StopperPathIsItsPath ==
    \A n \in Fulfilled :
        \A i \in 1..Len(Output(n)) :
            LET o == Output(n)[i]
            IN  IsStopper(o) => o.node._path = Append(o.above, o.node._cycleAt)

-----------------------------------------------------------------------------
(* Requests of the current build *)

\* The calls of _resolveAndCacheFunction and _getFunctionWithCycleCheck that
\* have returned.
Requests ==
    {t \in DOMAIN tasks : tasks[t].fn \in {"racf", "gfcc"} /\ tasks[t].st = "done"}

SameRequest(t, u) ==
    /\ _normalizeName(tasks[t].name) = _normalizeName(tasks[u].name)
    /\ tasks[t].visited = tasks[u].visited

\* The request was answered by awaiting the in-flight promise of another call.
AwaitedInFlight(t) ==
    /\ tasks[t].fn = "racf"
    /\ tasks[t].calls = 0
    /\ tasks[t].kids # <<>>

\* C4 as stated: within one build, all requests for the same lower-cased name
\* under the same visited set return the identical node.
C4_SameRequestSameNode ==
    \A t, u \in Requests : SameRequest(t, u) => tasks[t].val = tasks[u].val

\* C4, amended: within one build, all requests for the same lower-cased name
\* under the same visited set that does not hold that name return the
\* identical node, whether answered from the cache, from the in-flight
\* promise or by a resolution of their own.
C4_SameRequestSameNodeOffCycle ==
    \A t, u \in Requests :
        /\ SameRequest(t, u)
        /\ ~ CycleDetected(tasks[t].name, tasks[t].visited)
        => tasks[t].val = tasks[u].val

\* A sync and an async reference to one function from one parent: the second
\* request awaited the in-flight promise of the first and got the same node.
C4_Witness ==
    \E t, u \in Requests :
        /\ t # u
        /\ SameRequest(t, u)
        /\ tasks[t].name # tasks[u].name
        /\ ~ CycleDetected(tasks[t].name, tasks[t].visited)
        /\ AwaitedInFlight(u)
        /\ tasks[t].val = tasks[u].val
        /\ TypeOf(heap[tasks[t].val]) = "function"

-----------------------------------------------------------------------------
(* Termination *)

\* Every step of the engine that can be taken is taken, and every resolver
\* call settles.
Fairness ==
    /\ WF_vars(Step)
    /\ WF_vars(\E t \in DOMAIN tasks : ResolverSettles(t))

LiveSpec == Init /\ [][Next]_vars /\ Fairness

\* The last build() call has settled.
BuildSettled == builds # <<>> /\ builds[Len(builds)].status # "running"

\* The tasks whose promises the task t is waiting for, or will wait for.
Pending(t) ==
    {tasks[t].kids[k] : k \in 1..Len(tasks[t].kids)} \ {u \in DOMAIN tasks : Settled(u)}

\* The tasks that the tasks of front wait for, directly or through others.
RECURSIVE WaitsFor(_, _)
WaitsFor(seen, front) ==
    IF front = {} THEN seen
    ELSE LET next == UNION {Pending(t) : t \in front} \ seen
         IN  WaitsFor(seen \cup next, next)

\* No request that awaits an in-flight promise is awaited, directly or
\* through others, by the resolution behind that promise.
NoWaitCycle ==
    \A t \in DOMAIN tasks :
        tasks[t].fn = "racf" /\ tasks[t].st = "wait" /\ tasks[t].calls = 0
            => t \notin WaitsFor({}, {t})

\* C5: when every resolver call settles, every build() call settles, and no
\* resolution ever waits on an in-flight promise that waits on it.
C5_BuildSettles == ((builds # <<>>) ~> BuildSettled) /\ []NoWaitCycle

\* A build has fulfilled in which a request had to await an in-flight
\* resolution of the same function.
C5_Witness ==
    /\ builds # <<>>
    /\ builds[Len(builds)].status = "fulfilled"
    /\ \E t \in Requests : AwaitedInFlight(t)

-----------------------------------------------------------------------------
(* The order of children *)

\* The calls that resolved the children of a function definition (pass 1) or
\* of a structural node of the root tree (pass 2) and returned a node.
Fanned ==
    {t \in DOMAIN tasks :
        /\ tasks[t].fn \in {"iife", "bnode"}
        /\ tasks[t].pc = "finish"
        /\ tasks[t].st = "done"
        /\ t \in DOMAIN heap}

\* The children of the input node of t.
InputChildren(t) == List(tasks[t].node, "children")

\* What the i-th child of the input of t was resolved to.
ResolutionOf(t, i) == tasks[Append(t, i)].val

\* a is b with some elements left out.
RECURSIVE IsSubsequence(_, _)
IsSubsequence(a, b) ==
    IF a = <<>> THEN TRUE
    ELSE IF b = <<>> THEN FALSE
    ELSE IF a[1] = b[1] THEN IsSubsequence(Tail(a), Tail(b))
    ELSE IsSubsequence(a, Tail(b))

NoFilterEnabled ==
    ~ config.filterEmptyUiServiceMethods /\ ~ config.filterEmptyUiServices

\* C6: the i-th child of an output node is the resolution of the i-th child
\* of its input, whatever the order the resolver calls completed in; without
\* filters the output has as many children as the input, and a filter only
\* leaves children out.
C6_ChildrenInInputOrder ==
    \A t \in Fanned :
        LET resolutions ==
                [i \in 1..Len(InputChildren(t)) |-> ResolutionOf(t, i)]
            children == List(heap[t], "children")
        IN  /\ \A i \in 1..Len(InputChildren(t)) :
                   tasks[Append(t, i)].node = InputChildren(t)[i]
            /\ IsSubsequence(children, resolutions)
            /\ NoFilterEnabled => children = resolutions

\* A function whose two async children were resolved to different nodes, each
\* after a resolver call that settled at a time of its own.
C6_Witness ==
    \E t \in Fanned :
        /\ tasks[t].fn = "iife"
        /\ Len(InputChildren(t)) = 2
        /\ \A i \in 1..2 : tasks[Append(t, i)].ext = "settled"
        /\ heap[t].children[1] # heap[t].children[2]
        /\ heap[t].children = <<ResolutionOf(t, 1), ResolutionOf(t, 2)>>

-----------------------------------------------------------------------------
(* Builds on one instance *)

\* build() has cleared the caches and pass 1 is about to look at the first
\* registry entry.
PassOneStarts == At("pre", "start") /\ Me.i = 1

\* No resolver is set: nothing of a build depends on an answer.
NoResolver == asyncResolver = "none" /\ topicPublishResolver = "none"

\* C7: both caches are empty when pass 1 of a build starts, and so is all
\* that a build works on: every build starts from the state that the build of
\* a fresh builder starts from.  Where no resolver is set, a build returns
\* for a root the tree that the first build of the instance (the build of a
\* fresh builder) or any other build returned for it.
C7_BuildsAreIndependent ==
    /\ PassOneStarts =>
           /\ resolvedFunctions = EmptyMap /\ inFlightResolutions = EmptyMap
           /\ heap = EmptyMap /\ rawIds = {}
           /\ microtasks = <<>> /\ waiters = <<>>
           /\ DOMAIN tasks = {<<Len(builds)>>, <<Len(builds), 1>>}
    /\ NoResolver =>
           \A n, m \in Fulfilled :
               builds[n].root = builds[m].root => builds[n].tree = builds[m].tree

\* A later build has returned, for the root of the first build, a tree with
\* resolved functions in it.
C7_Witness ==
    /\ Len(builds) >= 2
    /\ Fulfilled = 1..Len(builds)
    /\ builds[1].root = builds[Len(builds)].root
    /\ \E i \in 1..Len(Output(Len(builds))) :
           TypeOf(Output(Len(builds))[i].node) = "function"
    /\ DOMAIN resolvedFunctions # {}

-----------------------------------------------------------------------------
(* Unresolved references *)

\* The requests for a name that the registry does not hold.
MissingRequests ==
    {t \in Requests :
        /\ ~ HasDef(functionDefs, _normalizeName(tasks[t].name))
        /\ ~ CycleDetected(tasks[t].name, tasks[t].visited)}

\* The reference names a function of the registry that is not on the path.
ResolvableRef(child, visited) ==
    /\ IsSyncRef(child)
    /\ HasDef(functionDefs, _normalizeName(child.ref))
    /\ _normalizeName(child.ref) \notin visited

MissingRef(child) ==
    /\ IsSyncRef(child) \/ IsAsyncRef(child)
    /\ ~ HasDef(functionDefs, _normalizeName(child.ref))

-----------------------------------------------------------------------------
(* Resolver failures *)

\* The calls that handled an async or a topic-publish reference and returned
\* its node.
Wrapped ==
    {t \in DOMAIN tasks :
        /\ tasks[t].fn \in {"rchild", "bnode"}
        /\ IsAsyncRef(tasks[t].node) \/ IsTopicPublish(tasks[t].node)
        /\ tasks[t].st = "done"}

ResolverOf(t) ==
    IF IsAsyncRef(tasks[t].node) THEN asyncResolver ELSE topicPublishResolver

ResolverNameOf(t) ==
    IF IsAsyncRef(tasks[t].node) THEN S("asyncResolver")
    ELSE S("topicPublishResolver")

\* How the resolver call of t ended.
OutcomeOf(t) ==
    IF IsAsyncRef(tasks[t].node)
    THEN ResolverOutcome(asyncResolver, tasks[t].node.ref,
                         EffectiveQueueName(functionDefs, tasks[t].node))
    ELSE ResolverOutcome(topicPublishResolver, EffectiveTopicName(tasks[t].node),
                         Get(tasks[t].node, "queueName"))

ResolverFailed(t) == ResolverOf(t) # "none" /\ OutcomeOf(t).kind = "throw"

\* The metadata lines of a node after the Logs line, when it has one.
LinesAfterLogs(node) ==
    IF TypeOf(node) \in config.logNodeTypes THEN Tail(node.metadata_lines)
    ELSE List(node, "metadata_lines")

\* The name the node of a reference gets when there is no resolver.
FallbackName(child) ==
    IF Truthy(Get(child, "queueName")) THEN child.queueName
    ELSE IF IsAsyncRef(child)
    THEN IF Truthy(FuncQueueName(functionDefs, child.ref))
         THEN FuncQueueName(functionDefs, child.ref)
         ELSE _getDisplayName(functionDefs, child.ref) \o S("_queue")
    ELSE IF Truthy(Get(child, "topicName")) THEN child.topicName \o S("_queue")
    ELSE S("unknown topic")

\* '<resolver> errored out: <message>'
ErrorLineAsStated(t) ==
    [text |-> ResolverNameOf(t) \o S(" errored out") \o S(": ")
                  \o OutcomeOf(t).message,
     clickable |-> FALSE]

\* The same, without the colon when the message is empty.
ErrorLineOf(t) ==
    [text |-> ResolverNameOf(t) \o S(" errored out")
                  \o (IF OutcomeOf(t).message = <<>> THEN <<>>
                      ELSE S(": ") \o OutcomeOf(t).message),
     clickable |-> FALSE]

IsTypeError(t) == tasks[t].fn = "rchild" /\ tasks[t].pc = "typeError"

\* C10: no unresolved reference, cycle or resolver failure makes a call fail:
\* a call is rejected only when a call it awaits is, and build() only
\* rejects for an input outside these conditions (an inline queue node
\* without children in a definition).
C10_NeverRejects ==
    /\ \A t \in DOMAIN tasks :
           tasks[t].st = "rejected" => IsTypeError(t) \/ KidRejected(tasks[t])
    /\ \A n \in 1..Len(builds) :
           builds[n].status = "rejected" =>
               \E i \in 1..Len(functionDefs) :
                   \E k \in 1..Len(List(functionDefs[i].def, "children")) :
                       LET child == functionDefs[i].def.children[k]
                       IN  IsInlineQueue(child) /\ ~ Has(child, "children")

HasErrorLine(node) ==
    \E k \in 1..Len(List(node, "metadata_lines")) :
        /\ node.metadata_lines[k].clickable = FALSE
        /\ node.metadata_lines[k].text
               = S("asyncResolver") \o S(" errored out") \o S(": ") \o S("boom")

\* build() has fulfilled with a tree that holds a dupe-stopper, an unresolved
\* leaf and the line of a failed resolver.
C10_Witness ==
    \E n \in Fulfilled :
        /\ \E i \in 1..Len(Output(n)) : IsStopper(Output(n)[i])
        /\ \E i \in 1..Len(Output(n)) : Has(Output(n)[i].node, "_unresolvedRef")
        /\ \E i \in 1..Len(Output(n)) : HasErrorLine(Output(n)[i].node)

-----------------------------------------------------------------------------
(* Isolation of resolver failures *)

\* The line was made for a resolver that failed.
IsErrorLine(line) ==
    /\ Has(line, "text")
    /\ Len(line.text) >= 2
    /\ line.text[1] \in {"asyncResolver", "topicPublishResolver"}
    /\ line.text[2] = " errored out"

\* The tree without the lines of failed resolvers; a node left with no line
\* has no metadata_lines.
RECURSIVE WithoutErrorLines(_)
WithoutErrorLines(node) ==
    LET lines == SelectSeq(List(node, "metadata_lines"),
                           LAMBDA line : ~ IsErrorLine(line))
        kept == IF lines = <<>> THEN Rest(node, {"metadata_lines"})
                ELSE Spread(node, [metadata_lines |-> lines])
    IN  IF Has(node, "children")
        THEN Spread(kept, [children |->
                 [k \in 1..Len(node.children) |->
                     WithoutErrorLines(node.children[k])]])
        ELSE kept

\* The input with the names of its references in lower case.
RECURSIVE LowerRefs(_)
LowerRefs(node) ==
    LET named == IF Truthy(Get(node, "ref"))
                 THEN Spread(node, [ref |-> _normalizeName(node.ref)])
                 ELSE node
    IN  IF Has(node, "children")
        THEN Spread(named, [children |->
                 [k \in 1..Len(node.children) |-> LowerRefs(node.children[k])]])
        ELSE named

\* The build() calls that have settled.
SettledBuilds == {n \in 1..Len(builds) : builds[n].status # "running"}

\* The resolver call of t returned null or undefined.
ResolverReturnedNothing(t) ==
    ResolverOf(t) # "none" /\ OutcomeOf(t).kind = "null"

\* C11: a resolver failure changes nothing but the wrapper node it was called
\* for.  A reference whose resolver call fails and the same reference
\* (written in another case) whose call returns nothing give the same node
\* and subtree once the line of the failure is taken away, and two builds
\* whose roots differ only in such references settle alike with trees that
\* are the same once these lines are taken away.
C11_FailureIsIsolated ==
    /\ \A t, u \in Wrapped :
           /\ ResolverFailed(t)
           /\ ResolverReturnedNothing(u)
           /\ PassOf(tasks[t]) = PassOf(tasks[u])
           /\ tasks[t].visited = tasks[u].visited
           /\ LowerRefs(tasks[t].node) = LowerRefs(tasks[u].node)
           => WithoutErrorLines(Unfold(heap, rawIds, t)) = Unfold(heap, rawIds, u)
    /\ \A n, m \in SettledBuilds :
           /\ LowerRefs(builds[n].root) = LowerRefs(builds[m].root)
           /\ builds[n].root # builds[m].root
           => /\ builds[n].status = builds[m].status
              /\ WithoutErrorLines(builds[n].tree) = WithoutErrorLines(builds[m].tree)

HasFailureLine(tree) ==
    \E i \in 1..Len(Occurrences(tree, <<>>)) :
        \E k \in 1..Len(List(Occurrences(tree, <<>>)[i].node, "metadata_lines")) :
            IsErrorLine(Occurrences(tree, <<>>)[i].node.metadata_lines[k])

\* Two builds have fulfilled whose roots differ in the case of a reference:
\* the resolver failed in the first and in the definitions it reached, and
\* returned nothing for the reference of the second.
C11_Witness ==
    /\ Fulfilled = {1, 2}
    /\ builds[1].root # builds[2].root
    /\ LowerRefs(builds[1].root) = LowerRefs(builds[2].root)
    /\ HasFailureLine(builds[1].tree)
    /\ builds[1].tree # builds[2].tree
    /\ \E t, u \in Wrapped : ResolverFailed(t) /\ ResolverReturnedNothing(u)

-----------------------------------------------------------------------------
(* Case-insensitive identity *)

\* The displayName stored in the registry entry that name refers to.
StoredDisplayName(name) == GetDef(functionDefs, _normalizeName(name)).displayName

\* The requests for a registered function that is not on the path.
FunctionRequests ==
    {t \in Requests :
        /\ HasDef(functionDefs, _normalizeName(tasks[t].name))
        /\ ~ CycleDetected(tasks[t].name, tasks[t].visited)}

\* The requests for a registered function that is on the path.
CycleRequests ==
    {t \in Requests :
        /\ HasDef(functionDefs, _normalizeName(tasks[t].name))
        /\ CycleDetected(tasks[t].name, tasks[t].visited)}

\* The async references that get the default name: neither the resolver nor
\* the reference nor the registry entry gives a queueName.
DefaultNamed ==
    {t \in Wrapped :
        /\ IsAsyncRef(tasks[t].node)
        /\ HasDef(functionDefs, _normalizeName(tasks[t].node.ref))
        /\ ~ Truthy(Get(tasks[t].props.resolvedProps, "queueName"))
        /\ ~ Truthy(Get(tasks[t].node, "queueName"))
        /\ ~ Truthy(FuncQueueName(functionDefs, tasks[t].node.ref))}

\* The name that the output uses for the function that name refers to.
OutputNameAsStated(name) == StoredDisplayName(name)

\* The same, with the name of the reference when the stored displayName is
\* empty.
OutputNameOf(name, written) ==
    IF Truthy(StoredDisplayName(name)) THEN StoredDisplayName(name) ELSE written

-----------------------------------------------------------------------------
(* The registry *)

MaxDefines == 3

\* The calls of defineFunction: names that differ in case only or not at all,
\* children given or left out, a displayName given, given empty, or left out.
DefineInputs ==
    LET names == {S("A"), S("a"), S("B")}
        children == {EmptyObject, [children |-> <<>>], [children |-> <<ref(S("B"))>>]}
        extraProps == {EmptyObject, [displayName |-> S("Shown")], [displayName |-> <<>>],
                       [queueName |-> S("Q")]}
    IN  {[name |-> name, def |-> Spread(c, props)] :
            name \in names, c \in children, props \in extraProps}

\* The objects given to defineFunctions: names that differ in case only, and
\* names that do not.
DefineObjects ==
    {<<Entry(S("A"), <<>>), EntryWith(S("a"), <<ref(S("B"))>>, [displayName |-> S("Shown")])>>,
     <<[name |-> S("a"), def |-> [queueName |-> S("Q")]], Entry(S("A"), <<ref(S("B"))>>)>>,
     <<EntryWith(S("B"), <<>>, [displayName |-> <<>>]), Entry(S("A"), <<>>)>>}

\* A builder on which nothing is defined yet.
RegistryInit ==
    /\ functionDefs = <<>>
    /\ defineCalls = <<>>
    /\ config = DefaultConfig
    /\ asyncResolver = "none"
    /\ topicPublishResolver = "none"
    /\ roots = {}
    /\ resolvedFunctions = EmptyMap
    /\ inFlightResolutions = EmptyMap
    /\ heap = EmptyMap
    /\ rawIds = {}
    /\ tasks = EmptyMap
    /\ stack = <<>>
    /\ microtasks = <<>>
    /\ waiters = <<>>
    /\ builds = <<>>

RegistryUnchanged ==
    UNCHANGED <<config, asyncResolver, topicPublishResolver, roots, resolvedFunctions,
                inFlightResolutions, heap, rawIds, tasks, stack, microtasks, waiters,
                builds>>

\* builder.defineFunction(name, children, extraProps); a call without children
\* takes the default of the parameter.
DefineFunction ==
    /\ Len(defineCalls) < MaxDefines
    /\ \E call \in DefineInputs :
          /\ functionDefs' = defineFunction(functionDefs, call.name,
                                            List(call.def, "children"),
                                            Rest(call.def, {"children"}))
          /\ defineCalls' = Append(defineCalls, call)
    /\ RegistryUnchanged

\* builder.defineFunctions(definitions)
DefineFunctions ==
    /\ \E entries \in DefineObjects :
          /\ Len(defineCalls) + Len(entries) <= MaxDefines
          /\ functionDefs' = defineFunctions(functionDefs, entries)
          /\ defineCalls' = defineCalls \o entries
    /\ RegistryUnchanged

RegistryNext == DefineFunction \/ DefineFunctions

RegistrySpec == RegistryInit /\ [][RegistryNext]_vars

\* The calls made for a key, and the last of them.
CallsFor(key) == {i \in 1..Len(defineCalls) : _normalizeName(defineCalls[i].name) = key}

LastCallFor(key) ==
    defineCalls[CHOOSE i \in CallsFor(key) : \A j \in CallsFor(key) : j <= i]

\* The entry a call asks for.
EntryAsStated(call) ==
    Spread([children |-> List(call.def, "children"),
            displayName |-> IF Has(call.def, "displayName")
                            THEN call.def.displayName ELSE call.name],
           Rest(call.def, {"children", "displayName"}))

-----------------------------------------------------------------------------
(* The names of the wrapper nodes *)

AsyncWrapped == {t \in Wrapped : IsAsyncRef(tasks[t].node)}

\* What the resolver returned for the reference of t; nothing when no resolver
\* is set, when it returned null and when it failed.
ReturnedProps(t) ==
    IF ResolverOf(t) # "none" /\ OutcomeOf(t).kind = "return" THEN OutcomeOf(t).value
    ELSE EmptyObject

\* The queue name by priority: resolver, reference, registry, displayName.
PriorityName(t) ==
    LET child == tasks[t].node
        key == _normalizeName(child.ref)
        registered == IF HasDef(functionDefs, key)
                      THEN Get(GetDef(functionDefs, key), "queueName") ELSE Undefined
    IN  IF Truthy(Get(ReturnedProps(t), "queueName")) THEN ReturnedProps(t).queueName
        ELSE IF Truthy(Get(child, "queueName")) THEN child.queueName
        ELSE IF Truthy(registered) THEN registered
        ELSE _getDisplayName(functionDefs, child.ref) \o S("_queue")

\* C14 as stated: the name of the timer node of an async reference is the
\* queueName the resolver returned, else the reference's own queueName, else the
\* queueName of the function's registry entry, else '<displayName>_queue', in
\* the root tree and in definitions alike.
C14_TimerNameAsStated ==
    \A t \in AsyncWrapped : heap[t].name = PriorityName(t)

\* C14, amended: the priority decides the name unless the reference or the
\* resolver's result carries a name property, which then is the node's name
\* (the resolver's before the reference's).
C14_TimerName ==
    \A t \in AsyncWrapped :
        heap[t].name =
            IF Has(ReturnedProps(t), "name") THEN ReturnedProps(t).name
            ELSE IF Has(tasks[t].node, "name") THEN tasks[t].node.name
            ELSE PriorityName(t)

\* Without a resolver result, a reference in the root tree is named by its own
\* queueName although the registry has another, a reference in a definition is
\* named by the registry, and another by the displayName.
C14_Witness ==
    /\ \E t \in AsyncWrapped :
           /\ tasks[t].fn = "bnode"
           /\ heap[t].name = S("INLINE.Q")
           /\ FuncQueueName(functionDefs, tasks[t].node.ref) = S("FUNC.Q")
    /\ \E t \in AsyncWrapped :
           /\ tasks[t].fn = "rchild"
           /\ ~ Truthy(Get(tasks[t].node, "queueName"))
           /\ heap[t].name = S("FUNC.Q")
    /\ \E t \in AsyncWrapped :
           /\ ~ Has(tasks[t].node, "name")
           /\ heap[t].name = _getDisplayName(functionDefs, tasks[t].node.ref) \o S("_queue")

-----------------------------------------------------------------------------
(* The calls of the resolvers *)

\* The calls that handle an async reference and are past the resolver call.
AsyncHandled ==
    {t \in DOMAIN tasks :
        /\ tasks[t].fn \in {"rchild", "bnode"}
        /\ IsAsyncRef(tasks[t].node)
        /\ tasks[t].pc # "start"}

\* The second argument as stated: the queueName of the reference, else that of
\* the registry entry, else undefined.
QueueNameArgument(child) ==
    LET key == _normalizeName(child.ref)
    IN  IF Truthy(Get(child, "queueName")) THEN child.queueName
        ELSE IF HasDef(functionDefs, key) /\ Has(GetDef(functionDefs, key), "queueName")
        THEN GetDef(functionDefs, key).queueName
        ELSE Undefined

\* C15: when an async resolver is set, every async reference that is resolved
\* has called it exactly once, with the reference's queueName as second
\* argument when it has one, else the queueName of the referenced function's
\* registry entry, else undefined; and no other step calls a resolver.
C15_ResolverCalledOncePerReference ==
    asyncResolver # "none" =>
        /\ \A t \in AsyncHandled :
               /\ Len(tasks[t].resolverCalls) = 1
               /\ tasks[t].resolverCalls[1][2] = QueueNameArgument(tasks[t].node)
        /\ \A t \in DOMAIN tasks :
               (tasks[t].fn \notin {"rchild", "bnode"} \/ IsSyncRef(tasks[t].node)
                \/ tasks[t].pc = "start")
                   => tasks[t].resolverCalls = <<>>

\* In one build the resolver was given the registry's queueName for a reference
\* without one, the inline queueName for a reference whose function has
\* another in the registry, and undefined for a third.
C15_Witness ==
    /\ asyncResolver # "none"
    /\ \E t \in AsyncHandled :
           /\ ~ Truthy(Get(tasks[t].node, "queueName"))
           /\ tasks[t].resolverCalls = <<<<tasks[t].node.ref, S("FUNC.Q")>>>>
           /\ tasks[t].st = "done"
    /\ \E t \in AsyncHandled :
           /\ FuncQueueName(functionDefs, tasks[t].node.ref) = S("FUNC.Q")
           /\ tasks[t].resolverCalls = <<<<tasks[t].node.ref, S("INLINE.Q")>>>>
    /\ \E t \in AsyncHandled :
           tasks[t].resolverCalls = <<<<tasks[t].node.ref, Undefined>>>>

-----------------------------------------------------------------------------
(* The topic nodes *)

TopicWrapped == {t \in Wrapped : IsTopicPublish(tasks[t].node)}

\* The name by priority: resolver, reference, topic name, 'unknown topic'.
TopicPriorityName(t) ==
    LET child == tasks[t].node
    IN  IF Truthy(Get(ReturnedProps(t), "queueName")) THEN ReturnedProps(t).queueName
        ELSE IF Truthy(Get(child, "queueName")) THEN child.queueName
        ELSE IF Truthy(Get(child, "topicName")) THEN child.topicName \o S("_queue")
        ELSE S("unknown topic")

\* The properties of a topic-publish reference that pass through to its node.
PassThrough(child) ==
    Rest(child, {"ref", "topicName", "topicPublish", "queueName", "metadata_lines"})

ReturnedNothing(t) == ResolverOf(t) # "none" /\ OutcomeOf(t).kind = "null"

\* The pass-through properties and the lines of the reference are on its node.
KeepsReferenceProps(t) ==
    /\ \A k \in DOMAIN PassThrough(tasks[t].node) \ {"name"} :
           Has(heap[t], k) /\ heap[t][k] = tasks[t].node[k]
    /\ LinesAfterLogs(heap[t]) = List(tasks[t].node, "metadata_lines")

\* C16 as stated: the name of the topic node is the queueName the resolver
\* returned, else the reference's own queueName, else '<topicName>_queue' when
\* there is a topicName, else 'unknown topic'; when the resolver returns null
\* the name and the pass-through properties are those of the reference.
C16_TopicNameAsStated ==
    \A t \in TopicWrapped :
        /\ heap[t].name = TopicPriorityName(t)
        /\ ReturnedNothing(t) => KeepsReferenceProps(t)

\* C16, amended: the priority decides the name unless the reference or the
\* resolver's result carries a name property, which then is the node's name.
C16_TopicName ==
    \A t \in TopicWrapped :
        /\ heap[t].name =
               IF Has(ReturnedProps(t), "name") THEN ReturnedProps(t).name
               ELSE IF Has(tasks[t].node, "name") THEN tasks[t].node.name
               ELSE TopicPriorityName(t)
        /\ ReturnedNothing(t) => KeepsReferenceProps(t)

\* The resolver returned null: a reference with a queueName and a stage made a
\* node with that name and that stage, in the root tree and in a definition,
\* and a reference without a topic name made 'unknown topic'.
C16_Witness ==
    /\ \E t \in TopicWrapped :
           /\ ReturnedNothing(t) /\ tasks[t].fn = "bnode"
           /\ heap[t].name = S("TOPIC.ORIGINAL.QUEUE")
           /\ heap[t].stage = S("publish")
    /\ \E t \in TopicWrapped :
           /\ ReturnedNothing(t) /\ tasks[t].fn = "rchild"
           /\ heap[t].name = S("IN.Q")
           /\ heap[t].stage = S("publish")
    /\ \E t \in TopicWrapped :
           /\ ReturnedNothing(t)
           /\ heap[t].name = S("unknown topic")

-----------------------------------------------------------------------------
(* The filters *)

\* The _buildNode calls that returned a 'ui-services' node with children.
UiServicesBuilt ==
    {t \in DOMAIN tasks :
        /\ tasks[t].fn = "bnode" /\ tasks[t].st = "done"
        /\ tasks[t].val # Null
        /\ IsStructural(tasks[t].node)
        /\ TypeOf(tasks[t].node) = "ui-services"
        /\ Has(tasks[t].node, "children")}

\* A method node without children, or with none left.
IsEmptyMethod(node) ==
    TypeOf(node) = "ui-service-method" /\ Len(List(node, "children")) = 0

KeptByMethodFilter(id) == id # Null /\ ~ IsEmptyMethod(heap[id])

C18_NoEmptyUiServices ==
    config.filterEmptyUiServices =>
        \A n \in Fulfilled : \A i \in 1..Len(Output(n)) :
            LET node == Output(n)[i].node
            IN  TypeOf(node) = "ui-services" => Len(List(node, "children")) > 0

-----------------------------------------------------------------------------
(* The Logs line *)

\* { text: 'Logs', clickable: true, data: { name, type, ... } }
IsLogsLineOf(line, node) ==
    /\ line.text = S("Logs")
    /\ Flag(line, "clickable")
    /\ Has(line, "data")
    /\ Get(line.data, "name") = Get(node, "name")
    /\ TypeOf(line.data) = TypeOf(node)

HasLogsFirst(node) ==
    /\ List(node, "metadata_lines") # <<>>
    /\ IsLogsLineOf(node.metadata_lines[1], node)

HasLogsSomewhere(node) ==
    \E k \in 1..Len(List(node, "metadata_lines")) :
        node.metadata_lines[k].text = S("Logs")

\* C19: a node of an output tree has the Logs line of its name and type as
\* its first metadata line exactly when its type is in logNodeTypes and it is
\* not a dupe-stopper; with logNodeTypes empty no node has a Logs line.
C19_LogsLineIffTypeListed ==
    \A n \in Fulfilled : \A i \in 1..Len(Output(n)) :
        LET node == Output(n)[i].node
        IN  /\ HasLogsFirst(node)
                <=> (TypeOf(node) \in config.logNodeTypes
                     /\ TypeOf(node) # "dupe-stopper")
            /\ config.logNodeTypes = {} => ~ HasLogsSomewhere(node)

-----------------------------------------------------------------------------
(* The function nodes *)

\* The resolutions of registry entries that have made their node.
FunctionsResolved ==
    {t \in DOMAIN tasks : tasks[t].fn = "iife" /\ tasks[t].st = "done"}

\* The lines of a function node after its Logs line, when it is due one.
FunctionLinesAfterLogs(node) ==
    IF "function" \in config.logNodeTypes THEN Tail(node.metadata_lines)
    ELSE List(node, "metadata_lines")

\* C20: the metadata_lines of a resolved function node are the Logs line (when
\* 'function' is in logNodeTypes), the line { text: app, clickable: false }
\* (when the definition has app) and the definition's own lines in their order;
\* the node has no app, queueName or displayName field.
C20_FunctionNodeLines ==
    \A t \in FunctionsResolved :
        LET def == tasks[t].node
            node == heap[t]
        IN  /\ "function" \in config.logNodeTypes => HasLogsFirst(node)
            /\ FunctionLinesAfterLogs(node)
                   = (IF Truthy(Get(def, "app"))
                      THEN <<[text |-> def.app, clickable |-> FALSE]>> ELSE <<>>)
                     \o List(def, "metadata_lines")
            /\ ~ Has(node, "app")
            /\ ~ Has(node, "queueName")
            /\ ~ Has(node, "displayName")

\* A definition with app, queueName, displayName and a line of its own made a
\* node with three lines: Logs, app, own.
C20_Witness ==
    /\ "function" \in config.logNodeTypes
    /\ \E t \in FunctionsResolved :
           /\ Has(tasks[t].node, "app") /\ Has(tasks[t].node, "queueName")
           /\ Has(tasks[t].node, "displayName")
           /\ Len(List(tasks[t].node, "metadata_lines")) = 1
           /\ Len(heap[t].metadata_lines) = 3
           /\ heap[t].metadata_lines[2].text = tasks[t].node.app

-----------------------------------------------------------------------------
(* The fields of the wrapper nodes *)

\* C21: the node made for an async or a topic-publish reference has no
\* queueName with a value, in the root tree and in definitions alike.
C21_NoQueueNameOnWrappers ==
    \A t \in Wrapped : Get(heap[t], "queueName") = Undefined

-----------------------------------------------------------------------------
(* The diamond *)

\* The builder holds the diamond, with sync or with async references to B and C.
IsDiamond ==
    \/ functionDefs = defineFunctions(<<>>, Diamond.defs)
    \/ functionDefs = defineFunctions(<<>>, DiamondAsync.defs)

\* The node of function D below node, along first children.
RECURSIVE DBelow(_)
DBelow(node) ==
    IF TypeOf(node) = "function" /\ node.name = S("D") THEN node
    ELSE DBelow(node.children[1])

\* The D node reached through the k-th child of A in the n-th output tree.
DThrough(n, k) == DBelow(builds[n].tree.children[1].children[k])

\* C22 as stated: in the diamond, the D node reached through B and the D node
\* reached through C are deep-equal.
C22_DiamondDeepEqual ==
    IsDiamond => \A n \in Fulfilled : DThrough(n, 1) = DThrough(n, 2)

StopperAtA(d, via) ==
    /\ Len(List(d, "children")) = 1
    /\ d.children[1] = [name |-> S("loop detected stopping (") \o S("A") \o S(")"),
                        type |-> "dupe-stopper",
                        _cycleAt |-> S("A"),
                        _path |-> <<S("A"), via, S("D"), S("A")>>]

\* C22, amended: under every order of the resolver's answers the two D nodes
\* are function nodes with one child, a stopper that names A; they are equal
\* but for the _path of the stopper, which is the path the D node was reached
\* by: A, B, D, A and A, C, D, A.
C22_DiamondEqualButPath ==
    IsDiamond =>
        \A n \in Fulfilled :
            /\ Rest(DThrough(n, 1), {"children"}) = Rest(DThrough(n, 2), {"children"})
            /\ StopperAtA(DThrough(n, 1), S("B"))
            /\ StopperAtA(DThrough(n, 2), S("C"))

\* The diamond with async references to B and C was built with an async
\* resolver set, and D is below both wrappers.
C22_Witness ==
    /\ functionDefs = defineFunctions(<<>>, DiamondAsync.defs)
    /\ asyncResolver # "none"
    /\ Fulfilled # {}
    /\ TypeOf(builds[1].tree.children[1].children[1]) = "timer"
    /\ DThrough(1, 2).name = S("D")

-----------------------------------------------------------------------------
(* The name given to the resolver *)

\* C23: the first argument of the async resolver, for a reference to a
\* registered function, is the displayName of that function, whatever the
\* letter case of the reference.
C23_ResolverGetsDisplayName ==
    asyncResolver # "none" =>
        \A t \in AsyncHandled :
            LET key == _normalizeName(tasks[t].node.ref)
            IN  HasDef(functionDefs, key) =>
                    tasks[t].resolverCalls[1][1] = GetDef(functionDefs, key).displayName

-----------------------------------------------------------------------------
(* The order of the resolver's answers *)

\* C24: for a registry, a root, a configuration and resolvers, build()
\* returns one tree, whatever the order in which the resolver calls complete:
\* two builds of the same root, each under any order, return the same tree.
C24_SameTreeUnderEveryOrder ==
    \A n, m \in Fulfilled :
        builds[n].root = builds[m].root => builds[n].tree = builds[m].tree

-----------------------------------------------------------------------------
(* One resolution per cache key *)

CacheKeyOf(t) == _getFunctionCacheKey(tasks[t].name, tasks[t].visited)

\* The bodies of resolution started in the current build.
Resolutions == {t \in DOMAIN tasks : tasks[t].fn = "iife"}

\* The calls that have written to resolvedFunctions in the current build: the
\* resolutions that completed, and the requests that made an unresolved node.
CacheWriters ==
    {t \in Resolutions : tasks[t].st = "done"}
        \cup {t \in DOMAIN tasks : /\ tasks[t].fn = "racf"
                                    /\ t \in DOMAIN heap
                                    /\ Has(heap[t], "_unresolvedRef")}

\* C25: within one build, under every interleaving, each cache key is written
\* to resolvedFunctions at most once and by the call whose node it holds, and
\* the body of resolution is started at most once for a key: a request that
\* arrives while the key is in flight awaits the in-flight promise.
C25_OneResolutionPerKey ==
    /\ \A t, u \in Resolutions : CacheKeyOf(t) = CacheKeyOf(u) => t = u
    /\ \A t, u \in CacheWriters : CacheKeyOf(t) = CacheKeyOf(u) => t = u
    /\ \A t \in CacheWriters :
           /\ CacheKeyOf(t) \in DOMAIN resolvedFunctions
           /\ resolvedFunctions[CacheKeyOf(t)] = t
    /\ \A t \in DOMAIN tasks :
           AwaitedInFlight(t) =>
               /\ tasks[t].kids[1] \in Resolutions
               /\ CacheKeyOf(tasks[t].kids[1]) = CacheKeyOf(t)

-----------------------------------------------------------------------------
(* The two passes *)

PreTask == <<Len(builds), 1>>

PassTwoTasks == {t \in DOMAIN tasks : tasks[t].fn \in {"bnode", "gfcc"}}

\* The sync references of the root tree to registered functions, outside any
\* inline function node: the visited set of the request is empty.
RootRequests ==
    {t \in DOMAIN tasks : /\ tasks[t].fn = "gfcc"
                          /\ tasks[t].visited = {}
                          /\ HasDef(functionDefs, _normalizeName(tasks[t].name))}

\* C26: pass 1 resolves the registry entries one after another in the order
\* of the registry, pass 2 starts only after pass 1 has finished, and then
\* every registered function has an entry under the empty visited set; a sync
\* reference of the root tree to a registered function, outside any inline
\* function node, is served that entry and starts no call of its own.
C26_PassOneThenPassTwo ==
    /\ builds # <<>> =>
           \A k \in 1..tasks[PreTask].calls :
               LET t == Append(PreTask, k)
               IN  /\ tasks[t].fn = "racf"
                   /\ tasks[t].name = functionDefs[k].key
                   /\ tasks[t].visited = {}
                   /\ k < tasks[PreTask].calls => tasks[t].st = "done"
    /\ PassTwoTasks # {} =>
           /\ tasks[PreTask].st = "done"
           /\ \A i \in 1..Len(functionDefs) :
                  _getFunctionCacheKey(functionDefs[i].key, {})
                      \in DOMAIN resolvedFunctions
    /\ \A t \in RootRequests :
           /\ tasks[t].calls = 0
           /\ tasks[t].st \in {"run", "done"}
           /\ tasks[t].st = "done" => tasks[t].val = resolvedFunctions[CacheKeyOf(t)]

\* A build over a registry of several functions was fulfilled, and its root
\* tree asked for a registered function outside any inline function node.
C26_Witness ==
    /\ Len(functionDefs) > 1
    /\ builds # <<>> /\ builds[Len(builds)].status = "fulfilled"
    /\ tasks[PreTask].calls = Len(functionDefs)
    /\ \E t \in RootRequests : tasks[t].st = "done"

-----------------------------------------------------------------------------
(* Cached function nodes *)

\* The cache keys that hold a function node made by a resolution.
CachedFunctions ==
    {key \in DOMAIN resolvedFunctions : tasks[resolvedFunctions[key]].fn = "iife"}

\* The node and everything below it exist.
RECURSIVE Complete(_)
Complete(id) ==
    /\ id # Null
    /\ id \in DOMAIN heap
    /\ \/ id \in rawIds
       \/ \A k \in 1..Len(List(heap[id], "children")) :
              Complete(heap[id].children[k])

CachedNodeComplete(key) ==
    LET id == resolvedFunctions[key]
        def == tasks[id].node
    IN  /\ TypeOf(heap[id]) = "function"
        /\ Len(tasks[id].kids) = Len(List(def, "children"))
        /\ \A k \in 1..Len(tasks[id].kids) : tasks[tasks[id].kids[k]].st = "done"
        /\ List(heap[id], "children") = Results(tasks[id])
        /\ Complete(id)

CachedNodeUnchanged(key) ==
    key \in DOMAIN resolvedFunctions' =>
        /\ resolvedFunctions'[key] = resolvedFunctions[key]
        /\ Unfold(heap', rawIds', resolvedFunctions[key])
               = Unfold(heap, rawIds, resolvedFunctions[key])

\* C27: in every reachable state a function node stored in resolvedFunctions
\* is complete (every child of its definition has finished resolving, and the
\* node has their results as children, one per child of the definition, in
\* order), and no step changes a node that is in the cache.
C27_CachedNodesCompleteAndFrozen ==
    /\ [](\A key \in CachedFunctions : CachedNodeComplete(key))
    /\ [][\A key \in DOMAIN resolvedFunctions : CachedNodeUnchanged(key)]_vars

\* A function with several children is in the cache, and a later step of the
\* same build has run since it was inserted.
C27_Witness ==
    \E key \in CachedFunctions :
        /\ Len(tasks[resolvedFunctions[key]].kids) > 1
        /\ \E other \in DOMAIN resolvedFunctions : other # key
        /\ PassTwoTasks # {}

-----------------------------------------------------------------------------
(* Cycle stoppers and the caches *)

\* The requests for a function that is among its own ancestors.
ReEntries ==
    {t \in DOMAIN tasks : /\ tasks[t].fn \in {"racf", "gfcc"}
                          /\ CycleDetected(tasks[t].name, tasks[t].visited)}

IsStopperNode(id) == id \in DOMAIN heap /\ TypeOf(heap[id]) = "dupe-stopper"

\* C28: no value of resolvedFunctions and no promise of inFlightResolutions
\* is a cycle stopper; a request for a function that is among its ancestors
\* looks nothing up and starts nothing, whatever the caches hold under its
\* key, and returns a stopper of its own, made from its own path.
C28_StoppersNeverCached ==
    /\ \A key \in DOMAIN resolvedFunctions :
           ~ IsStopperNode(resolvedFunctions[key])
    /\ \A key \in DOMAIN inFlightResolutions :
           /\ tasks[inFlightResolutions[key]].fn = "iife"
           /\ ~ IsStopperNode(inFlightResolutions[key])
    /\ \A t \in ReEntries :
           /\ tasks[t].calls = 0
           /\ tasks[t].st \in {"run", "done"}
           /\ tasks[t].st = "done" =>
                  /\ tasks[t].val = t
                  /\ heap[t] = _createCycleStopper(
                                   _getDisplayName(functionDefs, tasks[t].name),
                                   tasks[t].path)

\* A re-entry was answered with a stopper while the caches were in use: a
\* key was in flight and another was already cached.
C28_Witness ==
    \E t \in ReEntries :
        /\ tasks[t].st = "done"
        /\ IsStopperNode(t)
        /\ DOMAIN inFlightResolutions # {}
        /\ DOMAIN resolvedFunctions # {}

-----------------------------------------------------------------------------
(* The name on an unresolved node *)

\* C29: the node returned for a reference to a name that is not in the
\* registry carries that name exactly as the reference wrote it, in
\* _unresolvedRef and in its name, also when the same context holds several
\* references to the missing function in different letter case.
C29_UnresolvedNameAsWritten ==
    \A t \in MissingRequests :
        LET node == heap[tasks[t].val]
        IN  /\ node._unresolvedRef = tasks[t].name
            /\ node.name = S("dependency to ") \o tasks[t].name
                   \o S(" could not be resolved so the tree may be incomplete")

-----------------------------------------------------------------------------
(* The nodes that pass 2 tracks *)

\* The nodes with children that pass 2 has built.
Containers ==
    {t \in DOMAIN tasks : /\ tasks[t].fn = "bnode"
                          /\ tasks[t].st = "done"
                          /\ IsStructural(tasks[t].node)
                          /\ Has(tasks[t].node, "children")
                          /\ t \in DOMAIN heap
                          /\ TypeOf(heap[t]) # "dupe-stopper"}

\* Child i of the container is a sync reference to the registered function
\* that has the container's own name, and no function above is that one.
NamesItsContainer(t, i) ==
    LET child == tasks[t].node.children[i]
    IN  /\ IsSyncRef(child)
        /\ Has(tasks[t].node, "name")
        /\ _normalizeName(child.ref) = _normalizeName(tasks[t].node.name)
        /\ HasDef(functionDefs, _normalizeName(child.ref))
        /\ _normalizeName(child.ref) \notin tasks[t].visited

-----------------------------------------------------------------------------
(* References below an inline function node *)

\* The calls of _buildNode above call t, nearest last.
CallsAbove(t) ==
    {p \in DOMAIN tasks : /\ tasks[p].fn = "bnode"
                          /\ Len(p) < Len(t)
                          /\ SubSeq(t, 1, Len(p)) = p}

\* The calls of _buildNode that handled a reference lying below an inline
\* node of type 'function' whose name is the target of the reference.
BelowItsTarget ==
    {t \in DOMAIN tasks :
        /\ tasks[t].fn = "bnode"
        /\ tasks[t].st = "done"
        /\ IsSyncRef(tasks[t].node) \/ IsAsyncRef(tasks[t].node)
        /\ \E p \in CallsAbove(t) :
               /\ TypeOf(tasks[p].node) = "function"
               /\ Has(tasks[p].node, "name")
               /\ _normalizeName(tasks[p].node.name)
                      = _normalizeName(tasks[t].node.ref)}

StopsAt(id, target) ==
    /\ IsStopperNode(id)
    /\ heap[id]._cycleAt = _getDisplayName(functionDefs, target)

\* C31: in pass 2 a reference that lies anywhere below an inline node of type
\* 'function' with the name of its target, in any letter case, resolves its
\* target to a dupe-stopper, whatever is cached for the target: a sync
\* reference yields the stopper, an async reference a timer whose one child
\* is the stopper.
C31_InlineFunctionStopsItsTarget ==
    \A t \in BelowItsTarget :
        IF IsSyncRef(tasks[t].node)
        THEN StopsAt(tasks[t].val, tasks[t].node.ref)
        ELSE /\ TypeOf(heap[t]) = "timer"
             /\ Len(heap[t].children) = 1
             /\ StopsAt(heap[t].children[1], tasks[t].node.ref)

\* A sync and an async reference to a registered function, whose subtree is
\* cached under the empty context, were both built below an inline function
\* of that name, with a node of another type in between.
C31_Witness ==
    \A async \in BOOLEAN :
        \E t \in BelowItsTarget :
            /\ IsAsyncRef(tasks[t].node) = async
            /\ _getFunctionCacheKey(_normalizeName(tasks[t].node.ref), {})
                   \in DOMAIN resolvedFunctions
            /\ \E p \in CallsAbove(t) :
                   TypeOf(tasks[p].node) = "ui-service-method"

-----------------------------------------------------------------------------
(* One Logs line *)

RECURSIVE LogsLines(_)
LogsLines(lines) ==
    IF lines = <<>> THEN 0
    ELSE (IF lines[1].text = S("Logs") THEN 1 ELSE 0) + LogsLines(Tail(lines))

\* Children i and j of the input of t are a sync and an async reference to
\* one function, which was resolved for both.
SyncAndAsync(t, i, j) ==
    /\ IsSyncRef(InputChildren(t)[i])
    /\ IsAsyncRef(InputChildren(t)[j])
    /\ _normalizeName(InputChildren(t)[i].ref) = _normalizeName(InputChildren(t)[j].ref)
    /\ ResolutionOf(t, i) \in DOMAIN heap
    /\ TypeOf(heap[ResolutionOf(t, i)]) = "function"

\* C32: no node of an output tree has more than one Logs line, under every
\* interleaving; a function reached through a sync reference and through the
\* timer of an async reference of the same parent has the same metadata_lines
\* in both places, with Logs exactly once when 'function' is in logNodeTypes.
C32_LogsAtMostOnce ==
    /\ \A n \in Fulfilled : \A i \in 1..Len(Output(n)) :
           LogsLines(List(Output(n)[i].node, "metadata_lines")) <= 1
    /\ \A t \in Fanned : \A i, j \in 1..Len(InputChildren(t)) :
           SyncAndAsync(t, i, j) =>
               LET direct == heap[ResolutionOf(t, i)]
                   wrapped == heap[heap[ResolutionOf(t, j)].children[1]]
               IN  /\ List(direct, "metadata_lines") = List(wrapped, "metadata_lines")
                   /\ "function" \in config.logNodeTypes =>
                          LogsLines(List(direct, "metadata_lines")) = 1

\* With 'function' and 'timer' in logNodeTypes and an async resolver set, a
\* build returned a tree in which a function was resolved for a sync and an
\* async reference of one parent, and a request of that build was answered
\* from an in-flight promise.
C32_Witness ==
    /\ {"function", "timer"} \subseteq config.logNodeTypes
    /\ asyncResolver # "none"
    /\ Fulfilled # {}
    /\ \E u \in DOMAIN tasks : AwaitedInFlight(u) /\ tasks[u].st = "done"
    /\ \E t \in Fanned : \E i, j \in 1..Len(InputChildren(t)) :
           SyncAndAsync(t, i, j)
    /\ \E n \in Fulfilled : \E i \in 1..Len(Output(n)) :
           /\ TypeOf(Output(n)[i].node) = "timer"
           /\ LogsLines(List(Output(n)[i].node, "metadata_lines")) = 1

-----------------------------------------------------------------------------
(* The registry and the input of build() *)

\* The calls of _buildNode read the root structure as it was passed in: the
\* first one has the root, each other one the child of its parent's node.
ReadsInputAsGiven(t) ==
    IF Len(t) = 2
    THEN tasks[t].node = builds[Len(builds)].root
    ELSE LET p == SubSeq(t, 1, Len(t) - 1)
         IN  tasks[p].fn = "bnode" =>
                 tasks[t].node = tasks[p].node.children[t[Len(t)]]

\* C33: build() changes neither the registry nor its input.  In every state
\* the registry is what the defineFunction(s) calls made, whatever builds
\* have run, and every call of _buildNode has the node of the root structure
\* as it was passed in; no step changes the registry, a definition, the root
\* structures or the root recorded for a build.
C33_RegistryAndInputUnchanged ==
    /\ [](/\ functionDefs = defineFunctions(<<>>, defineCalls)
          /\ \A n \in 1..Len(builds) : builds[n].root \in roots
          /\ \A t \in DOMAIN tasks : tasks[t].fn = "bnode" => ReadsInputAsGiven(t))
    /\ [][/\ functionDefs' = functionDefs
          /\ roots' = roots
          /\ \A n \in 1..Len(builds) : builds'[n].root = builds[n].root]_vars

\* Two builds over a registry of several functions with children have
\* fulfilled.
C33_Witness ==
    /\ Len(builds) = 2
    /\ \A n \in 1..2 : builds[n].status = "fulfilled"
    /\ Len(functionDefs) > 1
    /\ \E i \in 1..Len(functionDefs) : Len(List(functionDefs[i].def, "children")) > 1

-----------------------------------------------------------------------------
(* The defining fields of a timer node *)

\* The one child of the timer is what the referenced function resolved to.
OneResolvedChild(t) ==
    /\ Len(List(heap[t], "children")) = 1
    /\ heap[t].children[1] = tasks[tasks[t].kids[1]].val
    /\ tasks[tasks[t].kids[1]].fn \in {"racf", "gfcc"}
    /\ tasks[tasks[t].kids[1]].name = tasks[t].node.ref
    /\ \/ TypeOf(heap[heap[t].children[1]]) \in {"function", "dupe-stopper"}
       \/ Has(heap[heap[t].children[1]], "_unresolvedRef")

\* C34 as stated: whatever properties the reference carries and the resolver
\* returns, the node of an async reference has type 'timer', the final queue
\* name as its name, and exactly one child, the resolution of the function.
C34_DefiningFieldsAsStated ==
    \A t \in AsyncWrapped :
        /\ TypeOf(heap[t]) = "timer"
        /\ heap[t].name = PriorityName(t)
        /\ OneResolvedChild(t)

\* C34, amended: the properties never change the children, which are exactly
\* one node, the resolution of the function; a type or a name among them
\* replaces 'timer' or the final queue name (the resolver's before the
\* reference's).
C34_DefiningFields ==
    \A t \in AsyncWrapped :
        /\ TypeOf(heap[t]) =
               IF Has(ReturnedProps(t), "type") THEN ReturnedProps(t).type
               ELSE IF Has(tasks[t].node, "type") THEN tasks[t].node.type
               ELSE "timer"
        /\ heap[t].name =
               IF Has(ReturnedProps(t), "name") THEN ReturnedProps(t).name
               ELSE IF Has(tasks[t].node, "name") THEN tasks[t].node.name
               ELSE PriorityName(t)
        /\ OneResolvedChild(t)

\* In one tree, a reference with a type of its own made a node of that type,
\* a reference with a name of its own a node of that name, and a reference
\* with neither a timer named by its queue; each has its one child.
C34_Witness ==
    /\ \E t \in AsyncWrapped :
           Has(tasks[t].node, "type") /\ TypeOf(heap[t]) = "queue"
    /\ \E t \in AsyncWrapped :
           Has(tasks[t].node, "name") /\ heap[t].name = S("mine")
    /\ \E t \in AsyncWrapped :
           /\ ~ Has(tasks[t].node, "type") /\ ~ Has(tasks[t].node, "name")
           /\ TypeOf(heap[t]) = "timer"
           /\ TypeOf(heap[heap[t].children[1]]) = "function"

-----------------------------------------------------------------------------
(* Topic-publish references are terminal *)

\* The node is dispatched as a topic-publish reference: topicPublish is set
\* and the node is not an async reference (ref with async).
PublishesToTopic(child) ==
    /\ Flag(child, "topicPublish")
    /\ ~ (Truthy(Get(child, "ref")) /\ Flag(child, "async"))

\* The calls that handle a topic-publish reference.
TopicHandlers ==
    {t \in DOMAIN tasks : /\ tasks[t].fn \in {"rchild", "bnode"}
                          /\ PublishesToTopic(tasks[t].node)}

\* C35: a topic-publish reference is terminal, also when it carries a ref.
\* The call that handles it calls no function of the engine and awaits no
\* resolution, its node has no children, and none of its steps adds a key to
\* resolvedFunctions or inFlightResolutions or starts a call.
C35_TopicIsTerminal ==
    /\ [](\A t \in TopicHandlers :
              /\ tasks[t].calls = 0
              /\ tasks[t].kids = <<>>
              /\ \A u \in DOMAIN tasks : Len(u) > Len(t) => SubSeq(u, 1, Len(t)) # t
              /\ tasks[t].st = "done" =>
                     /\ TypeOf(heap[t]) = "topic"
                     /\ ~ Has(heap[t], "children"))
    /\ [][stack # <<>> /\ Top \in TopicHandlers =>
              /\ resolvedFunctions' = resolvedFunctions
              /\ inFlightResolutions' = inFlightResolutions
              /\ DOMAIN tasks' = DOMAIN tasks]_vars

\* A topic-publish reference that carries the name of a registered function
\* in ref has been made into its node, in a build that resolved functions.
C35_Witness ==
    \E t \in TopicHandlers :
        /\ tasks[t].st = "done"
        /\ HasDef(functionDefs, _normalizeName(Get(tasks[t].node, "ref")))
        /\ DOMAIN resolvedFunctions # {}

-----------------------------------------------------------------------------
(* Inline queue nodes without children *)

\* The calls of _resolveChild for an inline queue, timer or topic node of a
\* definition that has no children field.
ChildlessInline ==
    {t \in DOMAIN tasks : /\ tasks[t].fn = "rchild"
                          /\ IsInlineQueue(tasks[t].node)
                          /\ ~ Has(tasks[t].node, "children")}

\* C36: an inline node of type 'queue', 'timer' or 'topic' without a children
\* field among the children of a definition does not make build() fail: its
\* call is not rejected and returns the node with an empty children list and
\* its other fields, and no build over such a registry is rejected.
C36_ChildlessInlineQueueIsKept ==
    /\ \A t \in ChildlessInline :
           /\ tasks[t].st # "rejected"
           /\ tasks[t].st = "done" =>
                  /\ heap[t].children = <<>>
                  /\ Rest(heap[t], {"children", "metadata_lines"})
                         = Rest(tasks[t].node, {"metadata_lines"})
    /\ ChildlessInline # {} => builds[Len(builds)].status # "rejected"

-----------------------------------------------------------------------------
(* A resolver that does not settle *)

\* The calls whose resolver call has not settled.
AwaitingResolver == {t \in DOMAIN tasks : tasks[t].ext = "pending"}

\* The calls that called t, directly or through other calls, build() first.
CallersOf(t) ==
    {p \in DOMAIN tasks : Len(p) < Len(t) /\ SubSeq(t, 1, Len(p)) = p}

\* C37: as long as a resolver call made during a build has not settled, the
\* call that waits for it, the calls above it and build() have not settled
\* either; so when the resolver never settles, build() never settles.
C37_PendingResolverStallsBuild ==
    \A t \in AwaitingResolver :
        /\ ~ Settled(t)
        /\ \A p \in CallersOf(t) : ~ Settled(p)
        /\ builds[Len(builds)].status = "running"

-----------------------------------------------------------------------------
(* The life of an in-flight entry *)

\* The call of _resolveAndCacheFunction that put the key in flight: it started
\* the resolution whose promise the entry holds and is awaiting it.
OwnerOf(key) ==
    {t \in DOMAIN tasks : /\ tasks[t].fn = "racf"
                          /\ tasks[t].pc = "finally"
                          /\ CacheKeyOf(t) = key
                          /\ tasks[t].kids = <<inFlightResolutions[key]>>}

\* C38: a key is in inFlightResolutions only while the call that resolves it
\* is running: the call that started the resolution has not returned, and
\* once it has returned, with the node cached or the resolution failed, its
\* entry is gone; when build() has fulfilled, inFlightResolutions is empty
\* and every resolution that was started has finished.
C38_InFlightOnlyWhileResolving ==
    /\ \A key \in DOMAIN inFlightResolutions :
           /\ inFlightResolutions[key] \in Resolutions
           /\ \E t \in OwnerOf(key) : ~ Settled(t)
    /\ \A t \in DOMAIN tasks :
           /\ tasks[t].fn = "racf" /\ tasks[t].calls = 1 /\ Settled(t)
           => \/ CacheKeyOf(t) \notin DOMAIN inFlightResolutions
              \/ inFlightResolutions[CacheKeyOf(t)] # tasks[t].kids[1]
    /\ builds # <<>> /\ builds[Len(builds)].status = "fulfilled" =>
           /\ inFlightResolutions = EmptyMap
           /\ \A t \in DOMAIN tasks :
                  tasks[t].fn \in {"racf", "iife"} => Settled(t)

\* build() has fulfilled after a build in which a request found its key in
\* flight and awaited the promise.
C38_Witness ==
    /\ builds # <<>> /\ builds[Len(builds)].status = "fulfilled"
    /\ Resolutions # {}
    /\ \E t \in DOMAIN tasks : AwaitedInFlight(t) /\ tasks[t].st = "done"

====
